---- MODULE Spec2Model ----
(***************************************************************************)
(* A model of the recency-weighted feature aggregation pipeline, of the    *)
(* model factory and of the scrapers:                                      *)
(*   src/src/data/feature_engineering.py  (weight_by_recency and callers)  *)
(*   src/src/data/data_loader.py          (load_multi_year_data)           *)
(*   src/src/models/model_factory.py      (BaseModel, create_model)        *)
(*   src/src/data/espn_*_scraper.py       (scrape_multiple_years)          *)
(*   src/src/data/scrape_all_data.py      (scrape_all_data)                *)
(*                                                                         *)
(* Data frames are objects on a heap (so that df.copy() and in-place       *)
(* column assignment are distinguishable); a dict is the sequence of its   *)
(* entries in insertion order with pairwise distinct keys.                 *)
(***************************************************************************)
EXTENDS Integers, Sequences, FiniteSets, TLC

VARIABLES
    data_by_year,   \* aggregator input: dict year -> data frame reference
    heap,           \* the caller's data frames: reference -> table
    call,           \* arguments of the last weight_by_recency call
    outcome,        \* what the last weight_by_recency call produced
    fs,             \* data directory: <<year, file name>> -> file state
    request,        \* arguments of the last load_multi_year_data call
    loaded,         \* what the last load_multi_year_data call produced
    team_stats_by_year,  \* pipeline input: dict year -> data frame reference
    rankings_by_year,    \* pipeline input: None or such a dict
    games_by_year,       \* pipeline input: dict year -> data frame reference
    target_years,        \* pipeline input: the years to train on
    featured,       \* what the last create_team_features call produced
    prepared,       \* what the last prepare_training_data call produced
    instances,      \* the model objects created so far
    disk,           \* directories made and files written by save
    last,           \* the last model operation and what it produced
    classifier_calls,  \* number of fit/predict calls on wrapped classifiers
    estimators_made,   \* number of classifier objects constructed
    ops,            \* number of model operations made
    matched,        \* what the last create_matchup_features call produced
    history,        \* the weight_by_recency calls of a session, oldest first
    web,            \* what the site serves: scraper -> year -> page
    scrape,         \* the last scraper call and what it produced
    outdir          \* directories and files below the scrapers' output_dir

aggVars == <<data_by_year, heap, call, outcome>>
loaderVars == <<fs, request, loaded>>
pipeVars == <<team_stats_by_year, rankings_by_year, games_by_year,
              target_years, featured, prepared, matched>>
sessionVars == <<history>>
scrapeVars == <<web, scrape, outdir>>
modelVars == <<instances, disk, last, classifier_calls, estimators_made, ops>>
vars == <<data_by_year, heap, call, outcome, fs, request, loaded,
          team_stats_by_year, rankings_by_year, games_by_year,
          target_years, featured, prepared,
          instances, disk, last, classifier_calls, estimators_made, ops,
          matched, history, web, scrape, outdir>>

----------------------------------------------------------------------------
(* Bounds of the model.                                                    *)

\* number of distinct seasons a mapping may hold
NumYears == 3
\* largest number of rows of one input table
MaxRows == 2
\* number of seasons in the data directory of the loader
NumLoadYears == 2
\* longest list of years requested from the loader
MaxRequest == 2

----------------------------------------------------------------------------
(* Tables (pandas data frames as values).                                  *)

\* the cell pd.concat fills in for a column a frame does not have
NaN == -1

Years == {2019 + k : k \in 1..NumYears}

\* base_weight / emphasis_weight pairs: the defaults (1.0, 2.0), the
\* reverse, and equal weights
WeightPairs == {<<1, 2>>, <<2, 1>>, <<2, 2>>}

\* emphasis_years values: none, every window size, and beyond |years|
EmphasisChoices == 0..(NumYears + 1)

\* a frame of n rows over the columns cols; the cell of row i is i in the
\* column team and 0 in any other column (0 is neither a year nor a weight)
MkTable(cols, n) ==
    [cols |-> cols,
     rows |-> [i \in 1..n |-> [c \in cols |-> IF c = "team" THEN i ELSE 0]]]

\* a frame of n equal rows that already carries year and weight columns
MkStaleTable(n) ==
    [cols |-> {"team", "year", "weight"},
     rows |-> [i \in 1..n |-> [team |-> 1, year |-> 0, weight |-> 0]]]

\* the frames a caller may pass: pd.DataFrame(), a header-only frame, a
\* frame of one row, a frame of MaxRows different rows, and a frame of
\* MaxRows equal rows with year and weight columns of its own.
\* A frame has rows only if it has columns, as every frame read from a CSV
\* file has.
InputTables ==
    {MkTable({}, 0)}
    \cup {MkTable({"team"}, n) : n \in {0, 1, MaxRows}}
    \cup {MkStaleTable(MaxRows)}

\* DataFrame.empty: some axis has length 0
DfEmpty(t) == t.cols = {} \/ Len(t.rows) = 0

\* (mutation) a column the frame already has keeps its cells
SetColumnKeepOld(t, c, v) ==
    [cols |-> t.cols \cup {c},
     rows |-> [i \in 1..Len(t.rows) |->
                 [k \in t.cols \cup {c} |->
                    IF k \in t.cols THEN t.rows[i][k] ELSE v]]]

\* df[c] = v on the frame value t: the column is added or overwritten
SetColumn(t, c, v) ==
    [cols |-> t.cols \cup {c},
     rows |-> [i \in 1..Len(t.rows) |->
                 [k \in t.cols \cup {c} |-> IF k = c THEN v ELSE t.rows[i][k]]]]

RECURSIVE ConcatCols(_)
ConcatCols(ts) ==
    IF ts = <<>> THEN {} ELSE Head(ts).cols \cup ConcatCols(Tail(ts))

\* one frame's rows widened to the columns cols
Widen(t, cols) ==
    [i \in 1..Len(t.rows) |->
        [k \in cols |-> IF k \in t.cols THEN t.rows[i][k] ELSE NaN]]

RECURSIVE ConcatRows(_, _)
ConcatRows(ts, cols) ==
    IF ts = <<>> THEN <<>>
    ELSE Widen(Head(ts), cols) \o ConcatRows(Tail(ts), cols)

\* (mutation) rows equal to an earlier row of the result are dropped
RECURSIVE DistinctRows(_, _)
DistinctRows(rows, seen) ==
    IF rows = <<>> THEN seen
    ELSE DistinctRows(Tail(rows),
                      IF \E i \in 1..Len(seen) : seen[i] = Head(rows)
                      THEN seen ELSE Append(seen, Head(rows)))

ConcatDedup(ts) ==
    [cols |-> ConcatCols(ts),
     rows |-> DistinctRows(ConcatRows(ts, ConcatCols(ts)), <<>>)]

\* pd.concat(frames, ignore_index=True): union of the columns, the rows of
\* the frames one after another
Concat(ts) ==
    [cols |-> ConcatCols(ts), rows |-> ConcatRows(ts, ConcatCols(ts))]

----------------------------------------------------------------------------
(* weight_by_recency.                                                      *)

SetMin(S) == CHOOSE m \in S : \A x \in S : m <= x

RECURSIVE Sorted(_)
\* sorted(keys): ascending
Sorted(S) ==
    IF S = {} THEN <<>> ELSE <<SetMin(S)>> \o Sorted(S \ {SetMin(S)})

Keys(d) == {d[i].year : i \in 1..Len(d)}

ToSet(s) == {s[i] : i \in 1..Len(s)}

\* Python s[start:]
PySliceFrom(s, start) ==
    LET n == Len(s)
        lo == IF start < 0 THEN (IF n + start < 0 THEN 0 ELSE n + start)
              ELSE (IF start > n THEN n ELSE start)
    IN  SubSeq(s, lo + 1, n)

\* (mutation) the window is taken from the front of the sorted years
RecentYearsOldest(years, emphasis_years) ==
    IF Len(years) >= emphasis_years
    THEN SubSeq(years, 1, emphasis_years)
    ELSE years

\* (mutation) no clamping: too few years leave the window empty
RecentYearsUnclamped(years, emphasis_years) ==
    IF Len(years) >= emphasis_years
    THEN PySliceFrom(years, 0 - emphasis_years)
    ELSE <<>>

\* recent_years = years[-emphasis_years:] if len(years) >= emphasis_years
\*                else years
RecentYears(years, emphasis_years) ==
    IF Len(years) >= emphasis_years
    THEN PySliceFrom(years, 0 - emphasis_years)
    ELSE years

\* (mutation) no copy: the caller's own frame is used
DfCopyAlias(h, ref) == [heap |-> h, ref |-> ref]

\* df.copy(): a new frame object with the same contents
DfCopy(h, ref) ==
    LET new == Len(h) + 1
    IN  [heap |-> Append(h, h[ref]), ref |-> new]

\* weight = emphasis_weight if year in recent_years else base_weight
WeightOf(year, recent_years, base_weight, emphasis_weight) ==
    IF year \in ToSet(recent_years) THEN emphasis_weight ELSE base_weight

\* the loop body for one item of data_by_year.items()
\* st = [heap, weighted_dfs]
StampYear(st, year, df, recent_years, base_weight, emphasis_weight) ==
    IF ~DfEmpty(st.heap[df])
    THEN LET cp == DfCopy(st.heap, df)
             h1 == [cp.heap EXCEPT ![cp.ref] = SetColumn(@, "year", year)]
             w  == WeightOf(year, recent_years, base_weight, emphasis_weight)
             h2 == [h1 EXCEPT ![cp.ref] = SetColumn(@, "weight", w)]
         IN  [heap |-> h2, weighted_dfs |-> Append(st.weighted_dfs, cp.ref)]
    ELSE st

RECURSIVE ItemsSorted(_)
\* (mutation) the items are visited in ascending order of the year
ItemsSorted(d) ==
    IF d = <<>> THEN <<>>
    ELSE LET m == SetMin(Keys(d))
             i == CHOOSE j \in 1..Len(d) : d[j].year = m
         IN  <<d[i]>> \o ItemsSorted(SubSeq(d, 1, i - 1) \o SubSeq(d, i + 1, Len(d)))

\* data_by_year.items(): the entries in insertion order
Items(d) == d

RECURSIVE StampLoop(_, _, _, _, _)
\* for year, df in data_by_year.items(): ...
StampLoop(st, items, recent_years, base_weight, emphasis_weight) ==
    IF items = <<>> THEN st
    ELSE StampLoop(StampYear(st, Head(items).year, Head(items).df,
                             recent_years, base_weight, emphasis_weight),
                   Tail(items), recent_years, base_weight, emphasis_weight)

NoTable == [cols |-> {}, rows |-> <<>>]

Raised(type, msg, h) ==
    [status |-> "raised", error |-> type, message |-> msg,
     table |-> NoTable, heap |-> h]

Returned(t, h) ==
    [status |-> "returned", error |-> "", message |-> "",
     table |-> t, heap |-> h]

\* (mutation) the check of weighted_dfs is missing: pd.concat([]) raises
\* its own ValueError
NoFramesConcatError(h) == Raised("ValueError", "No objects to concatenate", h)

\* if not weighted_dfs: raise ValueError(...)
NoFramesError(h) == Raised("ValueError", "No valid data frames to combine", h)

\* (mutation) the window is taken over the years whose table has rows
WeightByRecencyNonEmptyWindow(d, h, emphasis_years, base_weight, emphasis_weight) ==
    IF d = <<>>
    THEN Raised("ValueError", "No data provided", h)
    ELSE LET years == Sorted({d[i].year : i \in {j \in 1..Len(d) :
                                                   ~DfEmpty(h[d[j].df])}})
             recent_years == RecentYears(years, emphasis_years)
             st == StampLoop([heap |-> h, weighted_dfs |-> <<>>], Items(d),
                             recent_years, base_weight, emphasis_weight)
         IN  IF st.weighted_dfs = <<>>
             THEN NoFramesError(st.heap)
             ELSE Returned(
                    Concat([i \in 1..Len(st.weighted_dfs) |->
                               st.heap[st.weighted_dfs[i]]]),
                    st.heap)

\* weight_by_recency(data_by_year, emphasis_years, base_weight,
\* emphasis_weight) run on the heap h; the heap it leaves is part of the
\* result
WeightByRecency(d, h, emphasis_years, base_weight, emphasis_weight) ==
    IF d = <<>>
    THEN Raised("ValueError", "No data provided", h)
    ELSE LET years == Sorted(Keys(d))
             recent_years == RecentYears(years, emphasis_years)
             st == StampLoop([heap |-> h, weighted_dfs |-> <<>>], Items(d),
                             recent_years, base_weight, emphasis_weight)
         IN  IF st.weighted_dfs = <<>>
             THEN NoFramesError(st.heap)
             ELSE Returned(
                    Concat([i \in 1..Len(st.weighted_dfs) |->
                               st.heap[st.weighted_dfs[i]]]),
                    st.heap)

----------------------------------------------------------------------------
(* The aggregator's state machine: a caller holding a mapping calls        *)
(* weight_by_recency.                                                      *)

\* sequences of pairwise distinct years: the insertion orders of a dict
KeyOrders ==
    {s \in UNION {[1..n -> Years] : n \in 0..NumYears} :
        \A i, j \in 1..Len(s) : i # j => s[i] # s[j]}

NoCall == [emphasis_years |-> 0, base_weight |-> 0, emphasis_weight |-> 0]

Idle == [status |-> "idle", error |-> "", message |-> "", table |-> NoTable]

InitAggregator ==
    /\ \E ks \in KeyOrders :
         \E ts \in [1..Len(ks) -> InputTables] :
            /\ data_by_year = [i \in 1..Len(ks) |-> [year |-> ks[i], df |-> i]]
            /\ heap = [i \in 1..Len(ks) |-> ts[i]]
    /\ call = NoCall
    /\ outcome = Idle

\* the frames still referenced after the call: the caller's own
CallerFrames(h) == SubSeq(h, 1, Len(data_by_year))

\* one call; a behaviour follows the caller up to the end of its first call
WeightByRecencyCall(emphasis_years, base_weight, emphasis_weight) ==
    /\ outcome.status = "idle"
    /\ \E r \in {WeightByRecency(data_by_year, heap, emphasis_years,
                                 base_weight, emphasis_weight)} :
          /\ call' = [emphasis_years |-> emphasis_years,
                      base_weight |-> base_weight,
                      emphasis_weight |-> emphasis_weight]
          /\ outcome' = [status |-> r.status, error |-> r.error,
                         message |-> r.message, table |-> r.table]
          /\ heap' = CallerFrames(r.heap)
          /\ UNCHANGED data_by_year

CallWeightByRecency ==
    /\ \E e \in EmphasisChoices : \E w \in WeightPairs :
          WeightByRecencyCall(e, w[1], w[2])
    /\ UNCHANGED <<loaderVars, pipeVars, modelVars, sessionVars, scrapeVars>>

----------------------------------------------------------------------------
(* The data directory and the per-year loaders.                            *)

LoadYears == {2019 + k : k \in 1..NumLoadYears}

FileNames == {"team_stats.csv", "rankings.csv", "games.csv", "tournament.csv"}

\* a file is absent, a readable CSV, or present but rejected by read_csv
FileStates == {"absent", "csv", "unreadable"}

FileIndex(name) ==
    CASE name = "team_stats.csv" -> 1
      [] name = "rankings.csv" -> 2
      [] name = "games.csv" -> 3
      [] name = "tournament.csv" -> 4

\* what pd.read_csv yields for the readable file <year>/<name>
CsvTable(year, name) ==
    [cols |-> {"team", "stat"},
     rows |-> <<[team |-> year, stat |-> FileIndex(name)]>>]

\* the body shared by the four load_* functions: the path is
\* <data_dir>/<year>/<name>; what is a ParserError / EmptyDataError of
\* read_csv is the error "ReadError"
LoadFile(dir, year, name, what) ==
    IF dir[<<year, name>>] # "absent"
    THEN IF dir[<<year, name>>] = "csv"
         THEN [kind |-> "table", table |-> CsvTable(year, name),
               message |-> <<>>]
         ELSE [kind |-> "ReadError", table |-> NoTable, message |-> <<>>]
    ELSE [kind |-> "FileNotFoundError", table |-> NoTable,
          message |-> <<what, year>>]

load_team_stats(dir, year) ==
    LoadFile(dir, year, "team_stats.csv", "Team stats file not found for year")

load_rankings(dir, year) ==
    LoadFile(dir, year, "rankings.csv", "Rankings file not found for year")

load_game_results(dir, year) ==
    LoadFile(dir, year, "games.csv", "Game results file not found for year")

load_tournament_data(dir, year) ==
    LoadFile(dir, year, "tournament.csv", "Tournament file not found for year")

\* the keys of the dict loaders
DataTypes == {"team_stats", "rankings", "games", "tournament"}

\* loaders[data_type](year, data_dir)
Loaders(data_type, dir, year) ==
    CASE data_type = "team_stats" -> load_team_stats(dir, year)
      [] data_type = "rankings" -> load_rankings(dir, year)
      [] data_type = "games" -> load_game_results(dir, year)
      [] data_type = "tournament" -> load_tournament_data(dir, year)

\* result[year] = table: a new key goes last, an old key keeps its place
DictSet(d, year, table) ==
    IF \E i \in 1..Len(d) : d[i].year = year
    THEN [i \in 1..Len(d) |->
            IF d[i].year = year THEN [year |-> year, table |-> table]
            ELSE d[i]]
    ELSE Append(d, [year |-> year, table |-> table])

\* (mutation) a missing year is skipped without a warning
LoadYearSilent(st, data_type, dir, year) ==
    LET r == Loaders(data_type, dir, year)
        tried == Append(st.attempts, year)
    IN  CASE r.kind = "table" ->
               [st EXCEPT !.result = DictSet(@, year, r.table),
                          !.attempts = tried]
          [] r.kind = "FileNotFoundError" ->
               [st EXCEPT !.attempts = tried]
          [] OTHER ->
               [st EXCEPT !.status = "raised", !.error = r.kind,
                          !.attempts = tried]

\* (mutation) FileNotFoundError is not caught
LoadYearUncaught(st, data_type, dir, year) ==
    LET r == Loaders(data_type, dir, year)
        tried == Append(st.attempts, year)
    IN  IF r.kind = "table"
        THEN [st EXCEPT !.result = DictSet(@, year, r.table),
                        !.attempts = tried]
        ELSE [st EXCEPT !.status = "raised", !.error = r.kind,
                        !.attempts = tried]

\* one pass of "for year in years": st = [status, error, result, warnings,
\* attempts]; an exception other than FileNotFoundError leaves the loop
LoadYear(st, data_type, dir, year) ==
    LET r == Loaders(data_type, dir, year)
        tried == Append(st.attempts, year)
    IN  CASE r.kind = "table" ->
               [st EXCEPT !.result = DictSet(@, year, r.table),
                          !.attempts = tried]
          [] r.kind = "FileNotFoundError" ->
               [st EXCEPT !.warnings = Append(@, <<"Warning:">> \o r.message),
                          !.attempts = tried]
          [] OTHER ->
               [st EXCEPT !.status = "raised", !.error = r.kind,
                          !.attempts = tried]

RECURSIVE LoadLoop(_, _, _, _)
LoadLoop(st, data_type, dir, years) ==
    IF years = <<>> \/ st.status = "raised" THEN st
    ELSE LoadLoop(LoadYear(st, data_type, dir, Head(years)),
                  data_type, dir, Tail(years))

LoaderStart ==
    [status |-> "running", error |-> "", result |-> <<>>,
     warnings |-> <<>>, attempts |-> <<>>]

\* (mutation) a call that resolved no year is an error
LoadMultiYearDataNonEmpty(years, data_type, dir) ==
    IF data_type \notin DataTypes
    THEN [LoaderStart EXCEPT !.status = "raised", !.error = "ValueError"]
    ELSE LET st == LoadLoop(LoaderStart, data_type, dir, years)
         IN  IF st.status = "raised" \/ st.result = <<>>
             THEN [st EXCEPT !.status = "raised", !.result = <<>>,
                             !.error = IF st.status = "raised" THEN st.error
                                       ELSE "ValueError"]
             ELSE [st EXCEPT !.status = "returned"]

\* (mutation) the tag is looked up only when a year is retrieved
LoadMultiYearDataLazy(years, data_type, dir) ==
    IF years = <<>>
    THEN [LoaderStart EXCEPT !.status = "returned"]
    ELSE IF data_type \notin DataTypes
         THEN [LoaderStart EXCEPT !.status = "raised", !.error = "ValueError"]
         ELSE LET st == LoadLoop(LoaderStart, data_type, dir, years)
              IN  IF st.status = "raised"
                  THEN [st EXCEPT !.result = <<>>]
                  ELSE [st EXCEPT !.status = "returned"]

\* load_multi_year_data(years, data_type, data_dir)
LoadMultiYearData(years, data_type, dir) ==
    IF data_type \notin DataTypes
    THEN [LoaderStart EXCEPT !.status = "raised", !.error = "ValueError"]
    ELSE LET st == LoadLoop(LoaderStart, data_type, dir, years)
         IN  IF st.status = "raised"
             THEN [st EXCEPT !.result = <<>>]
             ELSE [st EXCEPT !.status = "returned"]

----------------------------------------------------------------------------
(* The loader's state machine: calls of load_multi_year_data on a data     *)
(* directory.                                                              *)

\* tags a caller may pass: the four of the dispatch table and two others
TagChoices == DataTypes \cup {"opponent_stats", ""}

\* years a caller may ask for (repetitions allowed)
RequestChoices == UNION {[1..n -> LoadYears] : n \in 0..MaxRequest}

NoRequest == [years |-> <<>>, data_type |-> "none"]

LoaderIdle == [LoaderStart EXCEPT !.status = "idle"]

InitLoader ==
    /\ fs \in [LoadYears \X FileNames -> FileStates]
    /\ request = NoRequest
    /\ loaded = LoaderIdle

\* one call; a behaviour follows the caller up to the end of its first call
LoadMultiYearDataCall(years, data_type) ==
    /\ loaded.status = "idle"
    /\ request' = [years |-> years, data_type |-> data_type]
    /\ loaded' = LoadMultiYearData(years, data_type, fs)
    /\ UNCHANGED fs

CallLoadMultiYearData ==
    /\ \E years \in RequestChoices : \E data_type \in TagChoices :
          LoadMultiYearDataCall(years, data_type)
    /\ UNCHANGED <<aggVars, pipeVars, modelVars, sessionVars, scrapeVars>>

----------------------------------------------------------------------------
(* create_team_features, create_matchup_features, prepare_training_data.   *)

\* number of distinct seasons the pipeline's mappings may hold
NumPrepYears == 2

PrepYears == {2019 + k : k \in 1..NumPrepYears}

\* the defaults base_weight=1.0 and emphasis_weight=2.0 of weight_by_recency
DefaultBaseWeight == 1
DefaultEmphasisWeight == 2
\* the default emphasis_years=2 of create_team_features and
\* create_matchup_features
DefaultEmphasisYears == 2

\* Optional[Dict]: None, or a dict
None == [none |-> TRUE, dict |-> <<>>]

Some(d) == [none |-> FALSE, dict |-> d]

\* (mutation) if rankings_by_year is not None: the empty dict passes
IsNotNone(opt) == ~opt.none

\* if rankings_by_year: None and the empty dict are false
Truthy(opt) == ~opt.none /\ opt.dict # <<>>

\* (mutation) the rankings are merged in: their weighted rows are appended
CreateTeamFeaturesMerged(team_stats, rankings, h, emphasis_years) ==
    LET weighted_stats == WeightByRecency(team_stats, h, emphasis_years,
                              DefaultBaseWeight, DefaultEmphasisWeight)
    IN  IF weighted_stats.status = "raised" THEN weighted_stats
        ELSE IF Truthy(rankings)
        THEN LET weighted_rankings ==
                     WeightByRecency(rankings.dict, weighted_stats.heap,
                         emphasis_years,
                         DefaultBaseWeight, DefaultEmphasisWeight)
             IN  IF weighted_rankings.status = "raised"
                 THEN weighted_rankings
                 ELSE Returned(Concat(<<weighted_stats.table,
                                        weighted_rankings.table>>),
                               weighted_rankings.heap)
        ELSE weighted_stats

\* create_team_features(team_stats_by_year, rankings_by_year,
\* emphasis_years) run on the heap h: the rankings are weighted when the
\* mapping is truthy, and the weighted team stats are returned
CreateTeamFeatures(team_stats, rankings, h, emphasis_years) ==
    LET weighted_stats == WeightByRecency(team_stats, h, emphasis_years,
                              DefaultBaseWeight, DefaultEmphasisWeight)
    IN  IF weighted_stats.status = "raised" THEN weighted_stats
        ELSE IF Truthy(rankings)
        THEN LET weighted_rankings ==
                     WeightByRecency(rankings.dict, weighted_stats.heap,
                         emphasis_years,
                         DefaultBaseWeight, DefaultEmphasisWeight)
             IN  IF weighted_rankings.status = "raised"
                 THEN weighted_rankings
                 ELSE Returned(weighted_stats.table, weighted_rankings.heap)
        ELSE weighted_stats

\* (mutation) the weighted games joined with the team features
CreateMatchupFeaturesJoined(team_features, games, h, emphasis_years) ==
    LET weighted_games == WeightByRecency(games, h, emphasis_years,
                              DefaultBaseWeight, DefaultEmphasisWeight)
    IN  IF weighted_games.status = "raised" THEN weighted_games
        ELSE Returned(Concat(<<weighted_games.table, team_features>>),
                      weighted_games.heap)

\* create_matchup_features(team_features, games_by_year, emphasis_years):
\* the weighted games
CreateMatchupFeatures(team_features, games, h, emphasis_years) ==
    WeightByRecency(games, h, emphasis_years,
                    DefaultBaseWeight, DefaultEmphasisWeight)

\* (mutation) no filtering: every year is kept
FilterYearsAll(d, target) == d

\* {year: df for year, df in d.items() if year in target_years}
FilterYears(d, target) == SelectSeq(d, LAMBDA it : it.year \in target)

\* df.drop(c, axis=1) on a frame that has the column c
DropColumn(t, c) ==
    [cols |-> t.cols \ {c},
     rows |-> [i \in 1..Len(t.rows) |-> [k \in t.cols \ {c} |-> t.rows[i][k]]]]

\* df[c] on a frame that has the column c
Column(t, c) == [i \in 1..Len(t.rows) |-> t.rows[i][c]]

NoSeries == <<>>

PrepRaised(type, msg, h) ==
    [status |-> "raised", error |-> type, message |-> msg,
     X |-> NoTable, y |-> NoSeries, heap |-> h]

PrepReturned(X, y, h) ==
    [status |-> "returned", error |-> "", message |-> "",
     X |-> X, y |-> y, heap |-> h]

\* (mutation) a missing outcome column is tolerated: nothing is dropped and
\* the target is a column of missing values
SplitOutcomeLenient(matchup_features, h) ==
    IF "outcome" \in matchup_features.cols
    THEN PrepReturned(DropColumn(matchup_features, "outcome"),
                      Column(matchup_features, "outcome"), h)
    ELSE PrepReturned(matchup_features,
                      [i \in 1..Len(matchup_features.rows) |-> NaN], h)

\* X = matchup_features.drop('outcome', axis=1)
\* y = matchup_features['outcome']
\* return X, y
SplitOutcome(matchup_features, h) ==
    IF "outcome" \in matchup_features.cols
    THEN PrepReturned(DropColumn(matchup_features, "outcome"),
                      Column(matchup_features, "outcome"), h)
    ELSE PrepRaised("KeyError", "['outcome'] not found in axis", h)

\* (mutation) the matchup features are built before the team features
PrepareTrainingDataGamesFirst(team_stats, rankings, games, target, h) ==
    IF rankings.none
    THEN PrepRaised("AttributeError",
                    "'NoneType' object has no attribute 'items'", h)
    ELSE
    LET filtered_stats == FilterYears(team_stats, target)
        filtered_rankings == FilterYears(rankings.dict, target)
        filtered_games == FilterYears(games, target)
        matchup_features ==
            CreateMatchupFeatures(NoTable, filtered_games, h,
                                  DefaultEmphasisYears)
    IN  IF matchup_features.status = "raised"
        THEN PrepRaised(matchup_features.error, matchup_features.message,
                        matchup_features.heap)
        ELSE LET team_features ==
                     CreateTeamFeatures(filtered_stats, Some(filtered_rankings),
                         matchup_features.heap, DefaultEmphasisYears)
             IN  IF team_features.status = "raised"
                 THEN PrepRaised(team_features.error, team_features.message,
                                 team_features.heap)
                 ELSE SplitOutcome(matchup_features.table, team_features.heap)

\* prepare_training_data(team_stats_by_year, rankings_by_year,
\* games_by_year, target_years) run on the heap h
PrepareTrainingData(team_stats, rankings, games, target, h) ==
    IF rankings.none
    THEN PrepRaised("AttributeError",
                    "'NoneType' object has no attribute 'items'", h)
    ELSE
    LET filtered_stats == FilterYears(team_stats, target)
        filtered_rankings == FilterYears(rankings.dict, target)
        filtered_games == FilterYears(games, target)
        team_features == CreateTeamFeatures(filtered_stats,
                             Some(filtered_rankings), h, DefaultEmphasisYears)
    IN  IF team_features.status = "raised"
        THEN PrepRaised(team_features.error, team_features.message,
                        team_features.heap)
        ELSE LET matchup_features ==
                     CreateMatchupFeatures(team_features.table, filtered_games,
                         team_features.heap, DefaultEmphasisYears)
             IN  IF matchup_features.status = "raised"
                 THEN PrepRaised(matchup_features.error,
                                 matchup_features.message,
                                 matchup_features.heap)
                 ELSE SplitOutcome(matchup_features.table,
                                   matchup_features.heap)

----------------------------------------------------------------------------
(* The pipeline's state machine: a caller holding the three mappings calls *)
(* create_team_features or prepare_training_data.                          *)

\* a games frame of n rows, with or without the outcome column; the outcome
\* of row i differs from its team
MkGames(n, with_outcome) ==
    IF with_outcome
    THEN [cols |-> {"team", "outcome"},
          rows |-> [i \in 1..n |-> [team |-> i, outcome |-> 1 - (i % 2)]]]
    ELSE MkTable({"team"}, n)

\* team-stats frames: pd.DataFrame(), one row, MaxRows rows
StatsTables == {MkTable({}, 0), MkTable({"team"}, 1), MkTable({"team"}, MaxRows)}

\* rankings frames: a header-only frame, one row
RankingTables == {MkTable({"team", "rank"}, 0), MkTable({"team", "rank"}, 1)}

\* games frames: header-only with an outcome column, one row without an
\* outcome column, MaxRows rows with one
GameTables == {MkGames(0, TRUE), MkGames(1, FALSE), MkGames(MaxRows, TRUE)}

\* the dicts over the given years and frames, in every insertion order
OrderedMappings(years, tables) ==
    {m \in UNION {[1..n -> [year : years, table : tables]] :
                     n \in 0..Cardinality(years)} :
        \A i, j \in 1..Len(m) : i # j => m[i].year # m[j].year}

\* those inserted in ascending order of the year
AscendingMappings(years, tables) ==
    {m \in OrderedMappings(years, tables) :
        \A i, j \in 1..Len(m) : i < j => m[i].year < m[j].year}

\* the dict m with its frames placed on the heap after off other frames
Refs(m, off) == [i \in 1..Len(m) |-> [year |-> m[i].year, df |-> off + i]]

Tables(m) == [i \in 1..Len(m) |-> m[i].table]

FeaturedIdle ==
    [status |-> "idle", error |-> "", message |-> "", table |-> NoTable,
     emphasis_years |-> 0]

PreparedIdle ==
    [status |-> "idle", error |-> "", message |-> "",
     X |-> NoTable, y |-> NoSeries]

MatchedIdle ==
    [status |-> "idle", error |-> "", message |-> "", table |-> NoTable,
     emphasis_years |-> 0, team_features |-> NoTable]

\* no pipeline call is made and the caller holds no mapping
InitPipelineIdle ==
    /\ team_stats_by_year = <<>>
    /\ rankings_by_year = None
    /\ games_by_year = <<>>
    /\ target_years = {}
    /\ featured = FeaturedIdle
    /\ prepared = PreparedIdle
    /\ matched = MatchedIdle

\* the caller holds the three mappings, their frames on the heap
InitPipeline(stats, rankings, games, target) ==
    /\ team_stats_by_year = Refs(stats, 0)
    /\ rankings_by_year = IF rankings.none THEN None
                          ELSE Some(Refs(rankings.dict, Len(stats)))
    /\ games_by_year = Refs(games, Len(stats) + Len(rankings.dict))
    /\ heap = Tables(stats) \o Tables(rankings.dict) \o Tables(games)
    /\ target_years = target
    /\ featured = FeaturedIdle
    /\ prepared = PreparedIdle
    /\ matched = MatchedIdle

\* one call; a behaviour follows the caller up to the end of its first call
CreateTeamFeaturesCall(emphasis_years) ==
    /\ featured.status = "idle"
    /\ prepared.status = "idle"
    /\ matched.status = "idle"
    /\ \E r \in {CreateTeamFeatures(team_stats_by_year, rankings_by_year,
                                    heap, emphasis_years)} :
          /\ featured' = [status |-> r.status, error |-> r.error,
                          message |-> r.message, table |-> r.table,
                          emphasis_years |-> emphasis_years]
          /\ heap' = SubSeq(r.heap, 1, Len(heap))
    /\ UNCHANGED <<team_stats_by_year, rankings_by_year, games_by_year,
                   target_years, prepared, matched>>

CallCreateTeamFeatures ==
    /\ \E e \in EmphasisChoices : CreateTeamFeaturesCall(e)
    /\ UNCHANGED <<data_by_year, call, outcome, loaderVars, modelVars,
                   sessionVars, scrapeVars>>

PrepareTrainingDataCall ==
    /\ featured.status = "idle"
    /\ prepared.status = "idle"
    /\ matched.status = "idle"
    /\ \E r \in {PrepareTrainingData(team_stats_by_year, rankings_by_year,
                                     games_by_year, target_years, heap)} :
          /\ prepared' = [status |-> r.status, error |-> r.error,
                          message |-> r.message, X |-> r.X, y |-> r.y]
          /\ heap' = SubSeq(r.heap, 1, Len(heap))
    /\ UNCHANGED <<team_stats_by_year, rankings_by_year, games_by_year,
                   target_years, featured, matched>>

\* the team_features tables a caller may pass: pd.DataFrame(), a frame of
\* one row, a weighted frame of MaxRows rows
TeamFeatureTables ==
    {MkTable({}, 0), MkTable({"team"}, 1),
     MkTable({"team", "year", "weight"}, MaxRows)}

CreateMatchupFeaturesCall(team_features, emphasis_years) ==
    /\ featured.status = "idle"
    /\ prepared.status = "idle"
    /\ matched.status = "idle"
    /\ \E r \in {CreateMatchupFeatures(team_features, games_by_year,
                                       heap, emphasis_years)} :
          /\ matched' = [status |-> r.status, error |-> r.error,
                         message |-> r.message, table |-> r.table,
                         emphasis_years |-> emphasis_years,
                         team_features |-> team_features]
          /\ heap' = SubSeq(r.heap, 1, Len(heap))
    /\ UNCHANGED <<team_stats_by_year, rankings_by_year, games_by_year,
                   target_years, featured, prepared>>

CallCreateMatchupFeatures ==
    /\ \E t \in TeamFeatureTables : \E e \in EmphasisChoices :
          CreateMatchupFeaturesCall(t, e)
    /\ UNCHANGED <<data_by_year, call, outcome, loaderVars, modelVars,
                   sessionVars, scrapeVars>>

CallPrepareTrainingData ==
    /\ PrepareTrainingDataCall
    /\ UNCHANGED <<data_by_year, call, outcome, loaderVars, modelVars,
                   sessionVars, scrapeVars>>

----------------------------------------------------------------------------
(* The model factory: BaseModel, its four variants, create_model.          *)

\* most model objects alive in one behaviour
MaxModels == 2
\* most model operations in one behaviour
MaxOps == 4

\* the four subclasses of BaseModel
Variants ==
    {"BaselineModel", "RandomForestModel", "GradientBoostingModel", "SVMModel"}

\* the keys of model_classes
ModelTypes == {"baseline", "random_forest", "gradient_boosting", "svm"}

\* model_classes[model_type]
ModelClasses(model_type) ==
    CASE model_type = "baseline" -> "BaselineModel"
      [] model_type = "random_forest" -> "RandomForestModel"
      [] model_type = "gradient_boosting" -> "GradientBoostingModel"
      [] model_type = "svm" -> "SVMModel"

\* the classifier a variant's train constructs
ClassifierOf(variant) ==
    CASE variant = "BaselineModel" -> "LogisticRegression"
      [] variant = "RandomForestModel" -> "RandomForestClassifier"
      [] variant = "GradientBoostingModel" -> "GradientBoostingClassifier"
      [] variant = "SVMModel" -> "SVC"

\* Classifier(**model_params): the ensembles take n_estimators, the other
\* two reject it with a TypeError; every classifier takes no parameters
Accepts(classifier, model_params) ==
    \A i \in 1..Len(model_params) :
        model_params[i].key = "n_estimators" =>
            classifier \in {"RandomForestClassifier",
                            "GradientBoostingClassifier"}

\* self.model = None
NoEstimator == [cls |-> "None", id |-> 0, fitted |-> FALSE]

\* model_params or {}
ModelParamsOr(model_params) ==
    IF model_params.none \/ model_params.dict = <<>>
    THEN <<>>
    ELSE model_params.dict

\* Variant(model_params): BaseModel.__init__
NewModel(variant, model_params) ==
    [variant |-> variant,
     model_params |-> ModelParamsOr(model_params),
     model |-> NoEstimator,
     is_trained |-> FALSE]

NoModel == [variant |-> "None", model_params |-> <<>>,
            model |-> NoEstimator, is_trained |-> FALSE]

\* what a model operation produced: the object it leaves or returns, the
\* estimators it constructed and the fit/predict calls it made
OpRaised(type, msg, obj, made, calls) ==
    [status |-> "raised", error |-> type, message |-> msg,
     obj |-> obj, made |-> made, calls |-> calls]

OpReturned(obj, made, calls) ==
    [status |-> "returned", error |-> "", message |-> "",
     obj |-> obj, made |-> made, calls |-> calls]

\* (mutation) an unknown tag yields the baseline model
CreateModelDefaulting(model_type, model_params) ==
    IF model_type \notin ModelTypes
    THEN OpReturned(NewModel("BaselineModel", model_params), 0, 0)
    ELSE OpReturned(NewModel(ModelClasses(model_type), model_params), 0, 0)

\* create_model(model_type, model_params)
CreateModel(model_type, model_params) ==
    IF model_type \notin ModelTypes
    THEN OpRaised("ValueError", "Unknown model type", NoModel, 0, 0)
    ELSE OpReturned(NewModel(ModelClasses(model_type), model_params), 0, 0)

\* (mutation) train starts by marking the model untrained, so a train whose
\* fit raises leaves it untrained
TrainResetting(obj, n, fit_ok) ==
    IF ~Accepts(ClassifierOf(obj.variant), obj.model_params)
    THEN OpRaised("TypeError", "unexpected keyword argument",
                  [obj EXCEPT !.is_trained = FALSE], 0, 0)
    ELSE LET estimator == [cls |-> ClassifierOf(obj.variant), id |-> n + 1,
                           fitted |-> fit_ok]
         IN  IF fit_ok
             THEN OpReturned([obj EXCEPT !.model = estimator,
                                         !.is_trained = TRUE], 1, 1)
             ELSE OpRaised("ValueError", "fit failed",
                           [obj EXCEPT !.model = estimator,
                                       !.is_trained = FALSE], 1, 1)

\* Variant.train(X, y) on the object obj when n estimators exist; fit_ok
\* tells whether fit(X, y) completes:
\*   self.model = Classifier(**self.model_params)
\*   self.model.fit(X, y)
\*   self.is_trained = True
Train(obj, n, fit_ok) ==
    IF ~Accepts(ClassifierOf(obj.variant), obj.model_params)
    THEN OpRaised("TypeError", "unexpected keyword argument", obj, 0, 0)
    ELSE LET estimator == [cls |-> ClassifierOf(obj.variant), id |-> n + 1,
                           fitted |-> fit_ok]
         IN  IF fit_ok
             THEN OpReturned([obj EXCEPT !.model = estimator,
                                         !.is_trained = TRUE], 1, 1)
             ELSE OpRaised("ValueError", "fit failed",
                           [obj EXCEPT !.model = estimator], 1, 1)

\* self.model.predict(X)
PredictImpl(obj) ==
    IF obj.model.fitted
    THEN OpReturned(obj, 0, 1)
    ELSE OpRaised("NotFittedError", "This instance is not fitted yet",
                  obj, 0, 1)

\* BaseModel.predict(X)
Predict(obj) ==
    IF ~obj.is_trained
    THEN OpRaised("RuntimeError",
                  "Model must be trained before making predictions", obj, 0, 0)
    ELSE PredictImpl(obj)

\* BaseModel.evaluate(X, y): predict, then the four metrics
Evaluate(obj) ==
    IF ~obj.is_trained
    THEN OpRaised("RuntimeError",
                  "Model must be trained before evaluation", obj, 0, 0)
    ELSE Predict(obj)

\* the file paths a caller saves to and loads from
Paths == {"model.pkl", "models/model.pkl"}

\* os.path.dirname(filepath)
Dirname(filepath) == IF filepath = "models/model.pkl" THEN "models" ELSE ""

NoFile == <<>>

\* (mutation) only the wrapped estimator is written; a restored object is
\* initialised anew around it
PickleEstimatorOnly(obj) ==
    <<obj.variant, <<>>, obj.model.cls, obj.model.fitted, FALSE>>

\* pickle.dump(self, f): the bytes hold the class and every attribute; the
\* identity of an object is not part of them
Pickle(obj) ==
    <<obj.variant, obj.model_params, obj.model.cls, obj.model.fitted,
      obj.is_trained>>

\* pickle.load(f) when n estimators exist: new objects built from the bytes
Unpickle(bytes, n) ==
    [variant |-> bytes[1],
     model_params |-> bytes[2],
     model |-> IF bytes[3] = "None" THEN NoEstimator
               ELSE [cls |-> bytes[3], id |-> n + 1, fitted |-> bytes[4]],
     is_trained |-> bytes[5]]

\* the estimators pickle.load constructs
UnpickleMade(bytes) == IF bytes[3] = "None" THEN 0 ELSE 1

\* BaseModel.save(filepath) on the disk d: the object it leaves and the disk
Save(obj, filepath, d) ==
    IF ~obj.is_trained
    THEN [op |-> OpRaised("RuntimeError", "Cannot save untrained model",
                          obj, 0, 0),
          disk |-> d]
    ELSE IF Dirname(filepath) = ""
    THEN [op |-> OpRaised("FileNotFoundError",
                          "[Errno 2] No such file or directory: ''",
                          obj, 0, 0),
          disk |-> d]
    ELSE [op |-> OpReturned(obj, 0, 0),
          disk |-> [dirs |-> d.dirs \cup {Dirname(filepath)},
                    files |-> [d.files EXCEPT ![filepath] = Pickle(obj)]]]

\* (mutation) any loaded model passes the check
IsInstanceAny(variant, cls) == TRUE

\* isinstance(model, cls): the four variants derive from BaseModel and not
\* from one another
IsInstance(variant, cls) == cls = "BaseModel" \/ variant = cls

\* cls.load(filepath) on the disk d when n estimators exist
Load(cls, filepath, d, n) ==
    IF d.files[filepath] = NoFile
    THEN OpRaised("FileNotFoundError",
                  "[Errno 2] No such file or directory", NoModel, 0, 0)
    ELSE LET model == Unpickle(d.files[filepath], n)
             made == UnpickleMade(d.files[filepath])
         IN  IF ~IsInstance(model.variant, cls)
             THEN OpRaised("TypeError", "Loaded model is not an instance",
                           NoModel, made, 0)
             ELSE OpReturned(model, made, 0)

----------------------------------------------------------------------------
(* The model factory's state machine: a caller creates models and calls    *)
(* their methods.                                                          *)

\* the model_type tags a caller may pass
TagArguments == ModelTypes \cup {"unknown", "Baseline"}

\* the model_params a caller may pass
ParamArguments ==
    {None, Some(<<>>), Some(<<[key |-> "n_estimators", value |-> 10]>>)}

\* the classes load may be called on
LoadClasses == Variants \cup {"BaseModel"}

NoOp ==
    [op |-> "none", ref |-> 0, tag |-> "", params |-> None, cls |-> "",
     path |-> "", status |-> "idle", error |-> "", message |-> ""]

\* the record of one operation: what was called and how it ended
OpRecord(op, ref, r) ==
    [NoOp EXCEPT !.op = op, !.ref = ref, !.status = r.status,
                 !.error = r.error, !.message = r.message]

InitModels ==
    /\ instances = <<>>
    /\ disk = [dirs |-> {}, files |-> [p \in Paths |-> NoFile]]
    /\ last = NoOp
    /\ classifier_calls = 0
    /\ estimators_made = 0
    /\ ops = 0

\* the common frame of a method call on the object i
MethodCall(op, i, r, filepath) ==
    /\ instances' = [instances EXCEPT ![i] = r.obj]
    /\ last' = [OpRecord(op, i, r) EXCEPT !.path = filepath]
    /\ classifier_calls' = classifier_calls + r.calls
    /\ estimators_made' = estimators_made + r.made
    /\ ops' = ops + 1

CreateModelCall(model_type, model_params) ==
    /\ ops < MaxOps
    /\ Len(instances) < MaxModels
    /\ \E r \in {CreateModel(model_type, model_params)} :
          /\ instances' = IF r.status = "returned"
                          THEN Append(instances, r.obj) ELSE instances
          /\ last' = [OpRecord("create_model",
                               IF r.status = "returned"
                               THEN Len(instances) + 1 ELSE 0, r)
                         EXCEPT !.tag = model_type, !.params = model_params]
    /\ ops' = ops + 1
    /\ UNCHANGED <<disk, classifier_calls, estimators_made>>

TrainCall(i, fit_ok) ==
    /\ ops < MaxOps
    /\ MethodCall("train", i, Train(instances[i], estimators_made, fit_ok), "")
    /\ UNCHANGED disk

PredictCall(i) ==
    /\ ops < MaxOps
    /\ MethodCall("predict", i, Predict(instances[i]), "")
    /\ UNCHANGED disk

EvaluateCall(i) ==
    /\ ops < MaxOps
    /\ MethodCall("evaluate", i, Evaluate(instances[i]), "")
    /\ UNCHANGED disk

SaveCall(i, filepath) ==
    /\ ops < MaxOps
    /\ \E r \in {Save(instances[i], filepath, disk)} :
          /\ MethodCall("save", i, r.op, filepath)
          /\ disk' = r.disk

LoadCall(cls, filepath) ==
    /\ ops < MaxOps
    /\ Len(instances) < MaxModels
    /\ \E r \in {Load(cls, filepath, disk, estimators_made)} :
          /\ instances' = IF r.status = "returned"
                          THEN Append(instances, r.obj) ELSE instances
          /\ last' = [OpRecord("load",
                               IF r.status = "returned"
                               THEN Len(instances) + 1 ELSE 0, r)
                         EXCEPT !.cls = cls, !.path = filepath]
          /\ estimators_made' = estimators_made + r.made
    /\ ops' = ops + 1
    /\ UNCHANGED <<disk, classifier_calls>>

CallCreateModel ==
    /\ \E model_type \in TagArguments : \E model_params \in ParamArguments :
          CreateModelCall(model_type, model_params)
    /\ UNCHANGED <<aggVars, loaderVars, pipeVars, sessionVars, scrapeVars>>

CallTrain ==
    /\ \E i \in 1..Len(instances) : \E fit_ok \in BOOLEAN : TrainCall(i, fit_ok)
    /\ UNCHANGED <<aggVars, loaderVars, pipeVars, sessionVars, scrapeVars>>

CallPredict ==
    /\ \E i \in 1..Len(instances) : PredictCall(i)
    /\ UNCHANGED <<aggVars, loaderVars, pipeVars, sessionVars, scrapeVars>>

CallEvaluate ==
    /\ \E i \in 1..Len(instances) : EvaluateCall(i)
    /\ UNCHANGED <<aggVars, loaderVars, pipeVars, sessionVars, scrapeVars>>

CallSave ==
    /\ \E i \in 1..Len(instances) : \E filepath \in Paths :
          SaveCall(i, filepath)
    /\ UNCHANGED <<aggVars, loaderVars, pipeVars, sessionVars, scrapeVars>>

CallLoad ==
    /\ \E cls \in LoadClasses : \E filepath \in Paths : LoadCall(cls, filepath)
    /\ UNCHANGED <<aggVars, loaderVars, pipeVars, sessionVars, scrapeVars>>

----------------------------------------------------------------------------
(* A session: a caller holding a mapping calls weight_by_recency several   *)
(* times, with the dict as held or rebuilt in reverse insertion order.     *)

\* most weight_by_recency calls in one session
MaxCalls == 3

\* the frames of a session's mapping: pd.DataFrame() and a frame of one row
SessionTables == {MkTable({}, 0), MkTable({"team"}, 1)}

\* emphasis_years of a session's calls
SessionEmphasis == {1, DefaultEmphasisYears}

\* base_weight / emphasis_weight of a session's calls
SessionWeights ==
    {<<DefaultBaseWeight, DefaultEmphasisWeight>>,
     <<DefaultEmphasisWeight, DefaultBaseWeight>>}

\* dict(reversed(d.items())): the same entries in reverse insertion order
Reversed(d) == [i \in 1..Len(d) |-> d[Len(d) + 1 - i]]

\* the mappings a session's call may pass
SessionMappings == {data_by_year, Reversed(data_by_year)}

\* (mutation) weighted_dfs outlives the call: the frames of the previous
\* call are combined again
InvocationAccumulating(d, h, emphasis_years, base_weight, emphasis_weight) ==
    LET r == WeightByRecency(d, h, emphasis_years, base_weight,
                             emphasis_weight)
    IN  IF r.status = "returned" /\ history # <<>>
           /\ history[Len(history)].status = "returned"
        THEN Returned(Concat(<<history[Len(history)].table, r.table>>),
                      r.heap)
        ELSE r

\* one call of the module-level function: the body runs on the arguments
\* with fresh locals; the module has no global and no memo
Invocation(d, h, emphasis_years, base_weight, emphasis_weight) ==
    WeightByRecency(d, h, emphasis_years, base_weight, emphasis_weight)

\* the session holds its mapping and has made no call
InitSession ==
    /\ \E m \in OrderedMappings(PrepYears, SessionTables) :
          /\ data_by_year = Refs(m, 0)
          /\ heap = Tables(m)
    /\ call = NoCall
    /\ outcome = Idle
    /\ history = <<>>

\* one more call of the session, recorded with its arguments (the mapping
\* and the frames it refers to) and its outcome
WeightByRecencyAgain(d, emphasis_years, base_weight, emphasis_weight) ==
    /\ Len(history) < MaxCalls
    /\ \E r \in {Invocation(d, heap, emphasis_years, base_weight,
                            emphasis_weight)} :
          /\ call' = [emphasis_years |-> emphasis_years,
                      base_weight |-> base_weight,
                      emphasis_weight |-> emphasis_weight]
          /\ outcome' = [status |-> r.status, error |-> r.error,
                         message |-> r.message, table |-> r.table]
          /\ history' = Append(history,
                           [data_by_year |-> d, frames |-> heap,
                            emphasis_years |-> emphasis_years,
                            base_weight |-> base_weight,
                            emphasis_weight |-> emphasis_weight,
                            status |-> r.status, error |-> r.error,
                            message |-> r.message, table |-> r.table])
          /\ heap' = CallerFrames(r.heap)
          /\ UNCHANGED data_by_year

CallWeightByRecencyAgain ==
    /\ \E d \in SessionMappings : \E e \in SessionEmphasis :
         \E w \in SessionWeights : WeightByRecencyAgain(d, e, w[1], w[2])
    /\ UNCHANGED <<loaderVars, pipeVars, modelVars, scrapeVars>>

----------------------------------------------------------------------------
(* The scrapers: scrape_multiple_years of the team-stats, opponent-stats   *)
(* and rankings scrapers and scrape_all_data.  The site is the map web;    *)
(* output_dir exists and is writable.  A data frame is the sequence of the *)
(* labels of the frames it was built from; the empty sequence is an empty  *)
(* frame, and an empty dict of polls.                                      *)

ScraperKinds == {"team_stats", "opponent_stats", "rankings"}

\* self._wait(2.0): the seconds a scraper waits after each year
ScraperWait == 2

\* wait_time: float = 2.0
DefaultWaitTime == 2

\* the wait_time arguments a caller may pass
WaitTimes == {DefaultWaitTime, 5}

\* what the site serves for one scraper and year.  A stats page is missing
\* or without tables ("empty"), well-formed ("data"), or has rows whose
\* cell count differs from the header count ("ragged"); a rankings page has
\* no poll ("empty"), the AP poll only ("ap"), or both polls ("both")
Pages(kind) ==
    IF kind = "rankings" THEN {"empty", "ap", "both"}
    ELSE {"empty", "data", "ragged"}

Got(frames) == [status |-> "returned", error |-> "", data |-> frames]

Failed(type) == [status |-> "raised", error |-> type, data |-> <<>>]

\* scrape_team_stats / scrape_opponent_stats(year): pd.DataFrame() on every
\* handled failure; pd.DataFrame(stats_data, columns=headers) raises
\* ValueError on a ragged page, which only the Selenium variant catches
ScrapeStats(label, use_selenium, page) ==
    CASE page = "data" -> Got(<<label>>)
      [] page = "ragged" ->
            IF use_selenium THEN Got(<<>>) ELSE Failed("ValueError")
      [] OTHER -> Got(<<>>)

scrape_team_stats(use_selenium, page) ==
    ScrapeStats("team_stats", use_selenium, page)

scrape_opponent_stats(use_selenium, page) ==
    ScrapeStats("opponent_stats", use_selenium, page)

\* scrape_all_rankings(year): the dict of the polls that have rows
scrape_all_rankings(use_selenium, page) ==
    CASE page = "both" -> Got(<<"AP", "Coaches">>)
      [] page = "ap" -> Got(<<"AP">>)
      [] OTHER -> Got(<<>>)

\* the per-year scrape of a scraper
ScrapeYear(kind, use_selenium, page) ==
    CASE kind = "team_stats" -> scrape_team_stats(use_selenium, page)
      [] kind = "opponent_stats" -> scrape_opponent_stats(use_selenium, page)
      [] kind = "rankings" -> scrape_all_rankings(use_selenium, page)

\* one thing a run did: ev is "makedirs", "run", "scrape", "save", "wait",
\* "to_csv" or "sleep"
Event(ev, kind, year, seconds) ==
    [ev |-> ev, kind |-> kind, year |-> year, seconds |-> seconds]

\* results[year] = frames
ResultSet(d, year, frames) ==
    IF \E i \in 1..Len(d) : d[i].year = year
    THEN [i \in 1..Len(d) |->
            IF d[i].year = year THEN [year |-> year, data |-> frames]
            ELSE d[i]]
    ELSE Append(d, [year |-> year, data |-> frames])

\* mens_basketball_<kind>_<year>.csv in output_dir
FlatCsv(kind, year) == <<"mens_basketball", kind, year, "csv">>

\* (mutation) no wait after a year without data
ScrapeOneYearHasty(st, kind, use_selenium, pages, year) ==
    LET r == ScrapeYear(kind, use_selenium, pages[year])
        attempted == Append(st.trace, Event("scrape", kind, year, 0))
    IN  IF r.status = "raised"
        THEN [st EXCEPT !.status = "raised", !.error = r.error,
                        !.trace = attempted]
        ELSE IF r.data # <<>>
        THEN [st EXCEPT
                 !.results = ResultSet(@, year, r.data),
                 !.flat = @ \cup {FlatCsv(kind, year)},
                 !.trace = attempted
                     \o <<Event("save", kind, year, 0),
                          Event("wait", kind, year, ScraperWait)>>]
        ELSE [st EXCEPT !.trace = attempted]

\* the body of the loop of scrape_multiple_years for one year
ScrapeOneYear(st, kind, use_selenium, pages, year) ==
    LET r == ScrapeYear(kind, use_selenium, pages[year])
        attempted == Append(st.trace, Event("scrape", kind, year, 0))
    IN  IF r.status = "raised"
        THEN [st EXCEPT !.status = "raised", !.error = r.error,
                        !.trace = attempted]
        ELSE IF r.data # <<>>
        THEN [st EXCEPT
                 !.results = ResultSet(@, year, r.data),
                 !.flat = @ \cup {FlatCsv(kind, year)},
                 !.trace = attempted
                     \o <<Event("save", kind, year, 0),
                          Event("wait", kind, year, ScraperWait)>>]
        ELSE [st EXCEPT
                 !.trace = attempted
                     \o <<Event("wait", kind, year, ScraperWait)>>]

\* for year in range(year, end_year + 1)
RECURSIVE ScrapeLoop(_, _, _, _, _, _)
ScrapeLoop(st, kind, use_selenium, pages, year, end_year) ==
    IF year > end_year \/ st.status = "raised" THEN st
    ELSE ScrapeLoop(ScrapeOneYear(st, kind, use_selenium, pages, year),
                    kind, use_selenium, pages, year + 1, end_year)

\* scrape_multiple_years(start_year, end_year) of the scraper of the given
\* kind, flat being the CSV files already in output_dir
ScrapeMultipleYears(kind, use_selenium, start_year, end_year, pages, flat) ==
    LET st == ScrapeLoop([status |-> "running", error |-> "",
                          results |-> <<>>, trace |-> <<>>, flat |-> flat],
                         kind, use_selenium, pages, start_year, end_year)
    IN  IF st.status = "raised" THEN [st EXCEPT !.results = <<>>]
        ELSE [st EXCEPT !.status = "returned"]

\* the scraper's constructor: the Selenium variants start a Chrome driver
NewScraper(use_selenium, driver) ==
    IF use_selenium /\ ~driver THEN Failed("WebDriverException")
    ELSE Got(<<>>)

\* range(start_year, end_year + 1) as a list
YearRange(start_year, end_year) ==
    [i \in 1..(end_year + 1 - start_year) |-> start_year + i - 1]

\* (mutation) the team stats are filed as games
YearFileGames(kind) ==
    CASE kind = "team_stats" -> "games.csv"
      [] kind = "opponent_stats" -> "opponent_stats.csv"
      [] kind = "rankings" -> "rankings.csv"

\* the file scrape_all_data writes below <output_dir>/<year>/
YearFile(kind) ==
    CASE kind = "team_stats" -> "team_stats.csv"
      [] kind = "opponent_stats" -> "opponent_stats.csv"
      [] kind = "rankings" -> "rankings.csv"

\* for year, df in results.items(): df.to_csv(<output_dir>/<year>/<file>);
\* for the rankings only if poll_dfs (every value of the mapping is truthy)
Organize(st, kind, results) ==
    [st EXCEPT
        !.files = @ \cup {<<results[i].year, YearFile(kind)>> :
                             i \in {j \in 1..Len(results) :
                                       results[j].data # <<>>}},
        !.trace = @ \o [i \in 1..Len(SelectSeq(results,
                                        LAMBDA it : it.data # <<>>)) |->
                          Event("to_csv", kind,
                                SelectSeq(results,
                                    LAMBDA it : it.data # <<>>)[i].year, 0)]]

\* (mutation) the sleep follows every scraper
RunScraperThenSleep(st, kind, enabled, sleep_after, use_selenium, start_year, end_year, wait_time, site) ==
    IF st.status = "raised" \/ ~enabled THEN st
    ELSE LET made == NewScraper(use_selenium, site.driver)
             r == ScrapeMultipleYears(kind, use_selenium, start_year,
                     end_year, site.pages[kind], st.flat)
             ran == [st EXCEPT
                        !.trace = Append(@, Event("run", kind, 0, 0))
                                     \o r.trace,
                        !.flat = r.flat]
         IN  IF made.status = "raised"
             THEN [st EXCEPT !.status = "raised", !.error = made.error]
             ELSE IF r.status = "raised"
             THEN [ran EXCEPT !.status = "raised", !.error = r.error]
             ELSE LET filed ==
                        Organize([ran EXCEPT
                                     !.results = Append(@,
                                         [key |-> kind, value |-> r.results])],
                                 kind, r.results)
                  IN  [filed EXCEPT
                          !.trace = Append(@, Event("sleep", "", 0,
                                                    wait_time))]

\* one block of scrape_all_data: if the flag is set, make the scraper, run
\* scrape_multiple_years, store the result under its key, write the
\* per-year files and sleep if a later scraper is enabled
RunScraper(st, kind, enabled, sleep_after, use_selenium, start_year, end_year, wait_time, site) ==
    IF st.status = "raised" \/ ~enabled THEN st
    ELSE LET made == NewScraper(use_selenium, site.driver)
             r == ScrapeMultipleYears(kind, use_selenium, start_year,
                     end_year, site.pages[kind], st.flat)
             ran == [st EXCEPT
                        !.trace = Append(@, Event("run", kind, 0, 0))
                                     \o r.trace,
                        !.flat = r.flat]
         IN  IF made.status = "raised"
             THEN [st EXCEPT !.status = "raised", !.error = made.error]
             ELSE IF r.status = "raised"
             THEN [ran EXCEPT !.status = "raised", !.error = r.error]
             ELSE LET filed ==
                        Organize([ran EXCEPT
                                     !.results = Append(@,
                                         [key |-> kind, value |-> r.results])],
                                 kind, r.results)
                  IN  IF sleep_after
                      THEN [filed EXCEPT
                              !.trace = Append(@, Event("sleep", "", 0,
                                                        wait_time))]
                      ELSE filed

\* the year directories are made, those that exist are left alone
MakeYearDirs(st, start_year, end_year) ==
    LET missing == SelectSeq(YearRange(start_year, end_year),
                             LAMBDA y : y \notin st.dirs)
    IN  [st EXCEPT
            !.dirs = @ \cup {missing[i] : i \in 1..Len(missing)},
            !.trace = @ \o [i \in 1..Len(missing) |->
                              Event("makedirs", "", missing[i], 0)]]

\* scrape_all_data(start_year, end_year, output_dir, use_selenium,
\* scrape_team_stats, scrape_opponent_stats, scrape_rankings, wait_time)
\* on the output directory dir = [dirs, flat, files]; flags is the set of
\* the enabled scrapers
ScrapeAllData(start_year, end_year, use_selenium, flags, wait_time, site, dir) ==
    LET st0 == [status |-> "running", error |-> "", results |-> <<>>,
                trace |-> <<>>, dirs |-> dir.dirs, flat |-> dir.flat,
                files |-> dir.files]
        st1 == MakeYearDirs(st0, start_year, end_year)
        st2 == RunScraper(st1, "team_stats", "team_stats" \in flags,
                   "opponent_stats" \in flags \/ "rankings" \in flags,
                   use_selenium, start_year, end_year, wait_time, site)
        st3 == RunScraper(st2, "opponent_stats", "opponent_stats" \in flags,
                   "rankings" \in flags,
                   use_selenium, start_year, end_year, wait_time, site)
        st4 == RunScraper(st3, "rankings", "rankings" \in flags, FALSE,
                   use_selenium, start_year, end_year, wait_time, site)
    IN  IF st4.status = "raised" THEN [st4 EXCEPT !.results = <<>>]
        ELSE [st4 EXCEPT !.status = "returned"]

----------------------------------------------------------------------------
(* The scrapers' state machine: a caller calls scrape_multiple_years of    *)
(* one scraper, or scrape_all_data, on an empty output directory.          *)

\* the sites: every page of every scraper and year, and whether a Chrome
\* driver can be started
Sites ==
    [pages : {p \in [ScraperKinds -> [LoadYears -> UNION {Pages(k) :
                                                   k \in ScraperKinds}]] :
                 \A k \in ScraperKinds : \A y \in LoadYears :
                    p[k][y] \in Pages(k)},
     driver : BOOLEAN]

\* the sites that serve one scraper's pages only
SitesOfOneScraper ==
    {s \in Sites :
        \E k \in ScraperKinds :
           \A j \in ScraperKinds \ {k} : \A y \in LoadYears :
              s.pages[j][y] = "empty"}

ScrapeIdle ==
    [status |-> "idle", error |-> "", op |-> "", kind |-> "",
     start_year |-> 0, end_year |-> 0, use_selenium |-> FALSE,
     flags |-> {}, wait_time |-> 0, results |-> <<>>, trace |-> <<>>]

\* the output directory exists and is empty
EmptyDir == [dirs |-> {}, flat |-> {}, files |-> {}]

\* the site serves nothing, no scraper call is made, output_dir is empty
InitScraperIdle ==
    /\ web = [pages |-> [k \in ScraperKinds |-> [y \in LoadYears |-> "empty"]],
              driver |-> FALSE]
    /\ scrape = ScrapeIdle
    /\ outdir = EmptyDir

InitScraper(sites) ==
    /\ web \in sites
    /\ scrape = ScrapeIdle
    /\ outdir = EmptyDir

\* the directory as the loader sees it: <year>/<name> is a readable CSV
\* once written
Written(dir, files) ==
    [f \in DOMAIN dir |-> IF f \in files THEN "csv" ELSE dir[f]]

\* one call of a scraper object's scrape_multiple_years; a behaviour
\* follows the caller up to the end of its first call
ScrapeMultipleYearsCall(kind, use_selenium, start_year, end_year) ==
    /\ scrape.status = "idle"
    /\ NewScraper(use_selenium, web.driver).status = "returned"
    /\ \E r \in {ScrapeMultipleYears(kind, use_selenium, start_year,
                    end_year, web.pages[kind], outdir.flat)} :
          /\ scrape' = [ScrapeIdle EXCEPT
                           !.status = r.status, !.error = r.error,
                           !.op = "scrape_multiple_years", !.kind = kind,
                           !.start_year = start_year, !.end_year = end_year,
                           !.use_selenium = use_selenium,
                           !.results = r.results, !.trace = r.trace]
          /\ outdir' = [outdir EXCEPT !.flat = r.flat]
    /\ UNCHANGED <<web, fs>>

CallScrapeMultipleYears ==
    /\ \E kind \in ScraperKinds : \E use_selenium \in BOOLEAN :
         \E start_year \in LoadYears : \E end_year \in LoadYears :
            ScrapeMultipleYearsCall(kind, use_selenium, start_year, end_year)
    /\ UNCHANGED <<aggVars, request, loaded, pipeVars, modelVars, sessionVars>>

\* one call of scrape_all_data
ScrapeAllDataCall(start_year, end_year, use_selenium, flags, wait_time) ==
    /\ scrape.status = "idle"
    /\ \E r \in {ScrapeAllData(start_year, end_year, use_selenium, flags,
                               wait_time, web, outdir)} :
          /\ scrape' = [ScrapeIdle EXCEPT
                           !.status = r.status, !.error = r.error,
                           !.op = "scrape_all_data",
                           !.start_year = start_year, !.end_year = end_year,
                           !.use_selenium = use_selenium, !.flags = flags,
                           !.wait_time = wait_time,
                           !.results = r.results, !.trace = r.trace]
          /\ outdir' = [dirs |-> r.dirs, flat |-> r.flat, files |-> r.files]
          /\ fs' = Written(fs, r.files)
    /\ UNCHANGED web

CallScrapeAllData ==
    /\ \E start_year \in LoadYears : \E end_year \in LoadYears :
         \E use_selenium \in BOOLEAN : \E flags \in SUBSET ScraperKinds :
            \E wait_time \in WaitTimes :
               ScrapeAllDataCall(start_year, end_year, use_selenium, flags,
                                 wait_time)
    /\ UNCHANGED <<aggVars, request, loaded, pipeVars, modelVars, sessionVars>>

----------------------------------------------------------------------------
(* Specifications.                                                         *)

\* no mapping is held and no weight_by_recency call is made
InitAggregatorIdle ==
    /\ data_by_year = <<>>
    /\ call = NoCall
    /\ outcome = Idle

\* the data directory is empty and no load is made
InitLoaderIdle ==
    /\ fs = [f \in LoadYears \X FileNames |-> "absent"]
    /\ request = NoRequest
    /\ loaded = LoaderIdle

\* no session of weight_by_recency calls is under way
InitSessionIdle == history = <<>>

\* the aggregator alone
AggInit ==
    /\ InitAggregator
    /\ InitLoaderIdle
    /\ InitPipelineIdle
    /\ InitModels
    /\ InitSessionIdle
    /\ InitScraperIdle

AggNext == CallWeightByRecency

AggSpec == AggInit /\ [][AggNext]_vars

\* the loader alone
LoaderInit ==
    /\ InitLoader
    /\ InitAggregatorIdle
    /\ heap = <<>>
    /\ InitPipelineIdle
    /\ InitModels
    /\ InitSessionIdle
    /\ InitScraperIdle

LoaderNext == CallLoadMultiYearData

LoaderSpec == LoaderInit /\ [][LoaderNext]_vars

\* create_team_features alone: team stats and rankings in every insertion
\* order, rankings also None; no games
FeatureInit ==
    /\ \E stats \in OrderedMappings(PrepYears, StatsTables) :
         \E rankings \in {None} \cup {Some(m) :
                             m \in OrderedMappings(PrepYears, RankingTables)} :
            InitPipeline(stats, rankings, <<>>, {})
    /\ InitAggregatorIdle
    /\ InitLoaderIdle
    /\ InitModels
    /\ InitSessionIdle
    /\ InitScraperIdle

FeatureNext == CallCreateTeamFeatures

FeatureSpec == FeatureInit /\ [][FeatureNext]_vars

\* the team-stats mappings of prepare_training_data's callers
TrainStats == AscendingMappings(PrepYears, {MkTable({}, 0), MkTable({"team"}, 1)})

\* their rankings: None, or a mapping of at most one year
TrainRankings ==
    {None} \cup {Some(m) : m \in {r \in AscendingMappings(PrepYears, RankingTables) :
                                    Len(r) <= 1}}

\* prepare_training_data alone: games in every insertion order
TrainInit ==
    /\ \E stats \in TrainStats : \E rankings \in TrainRankings :
         \E games \in OrderedMappings(PrepYears, GameTables) :
            \E target \in SUBSET PrepYears :
               InitPipeline(stats, rankings, games, target)
    /\ InitAggregatorIdle
    /\ InitLoaderIdle
    /\ InitModels
    /\ InitSessionIdle
    /\ InitScraperIdle

TrainNext == CallPrepareTrainingData

TrainSpec == TrainInit /\ [][TrainNext]_vars

\* the model factory alone
ModelInit ==
    /\ InitModels
    /\ InitAggregatorIdle
    /\ heap = <<>>
    /\ InitLoaderIdle
    /\ InitPipelineIdle
    /\ InitSessionIdle
    /\ InitScraperIdle

\* create_matchup_features alone: games in every insertion order
MatchupInit ==
    /\ \E games \in OrderedMappings(PrepYears, GameTables) :
          InitPipeline(<<>>, None, games, {})
    /\ InitAggregatorIdle
    /\ InitLoaderIdle
    /\ InitModels
    /\ InitSessionIdle
    /\ InitScraperIdle

MatchupNext == CallCreateMatchupFeatures

MatchupSpec == MatchupInit /\ [][MatchupNext]_vars

\* a session of weight_by_recency calls alone
SessionInit ==
    /\ InitSession
    /\ InitLoaderIdle
    /\ InitPipelineIdle
    /\ InitModels
    /\ InitScraperIdle

SessionNext == CallWeightByRecencyAgain

SessionSpec == SessionInit /\ [][SessionNext]_vars

\* scrape_multiple_years alone, on a site serving one scraper's pages
ScraperInit ==
    /\ InitScraper(SitesOfOneScraper)
    /\ InitAggregatorIdle
    /\ heap = <<>>
    /\ InitLoaderIdle
    /\ InitPipelineIdle
    /\ InitModels
    /\ InitSessionIdle

ScraperNext == CallScrapeMultipleYears

ScraperSpec == ScraperInit /\ [][ScraperNext]_vars

\* scrape_all_data alone, on any site
ScrapeAllInit ==
    /\ InitScraper(Sites)
    /\ InitAggregatorIdle
    /\ heap = <<>>
    /\ InitLoaderIdle
    /\ InitPipelineIdle
    /\ InitModels
    /\ InitSessionIdle

ScrapeAllNext == CallScrapeAllData

ScrapeAllSpec == ScrapeAllInit /\ [][ScrapeAllNext]_vars

ModelNext ==
    \/ CallCreateModel
    \/ CallTrain
    \/ CallPredict
    \/ CallEvaluate
    \/ CallSave
    \/ CallLoad

ModelSpec == ModelInit /\ [][ModelNext]_vars

Init ==
    \/ AggInit
    \/ LoaderInit
    \/ FeatureInit
    \/ TrainInit
    \/ ModelInit
    \/ MatchupInit
    \/ SessionInit
    \/ ScraperInit
    \/ ScrapeAllInit

Next ==
    \/ CallWeightByRecency
    \/ CallLoadMultiYearData
    \/ CallCreateTeamFeatures
    \/ CallPrepareTrainingData
    \/ ModelNext
    \/ CallCreateMatchupFeatures
    \/ CallWeightByRecencyAgain
    \/ CallScrapeMultipleYears
    \/ CallScrapeAllData

Spec == Init /\ [][Next]_vars

----------------------------------------------------------------------------
(* Properties of weight_by_recency, stated on the state after a call:      *)
(* data_by_year and heap hold the arguments, call the other arguments,     *)
(* outcome the result.                                                     *)

AggReturned == outcome.status = "returned"

AggRaised == outcome.status = "raised"

OutRows == outcome.table.rows

InputTable(i) == heap[data_by_year[i].df]

\* the positions of the mapping whose table has rows to contribute
Contributing == {i \in 1..Len(data_by_year) : ~DfEmpty(InputTable(i))}

RECURSIVE OriginsFrom(_)
\* for every row the inputs hold, in insertion order of the years and in
\* the order of the rows of each table: the entry and the row it is
OriginsFrom(i) ==
    IF i > Len(data_by_year) THEN <<>>
    ELSE (IF i \in Contributing
          THEN [r \in 1..Len(InputTable(i).rows) |-> [entry |-> i, row |-> r]]
          ELSE <<>>) \o OriginsFrom(i + 1)

RowOrigins == OriginsFrom(1)

\* the year of the entry a row origin names
YearOf(origin) == data_by_year[origin.entry].year

\* the trailing min(n, |years|) years of the ascending order of the keys
TrailingYears(n) ==
    {y \in Keys(data_by_year) :
        Cardinality({z \in Keys(data_by_year) : z > y}) < n}

RECURSIVE SumRows(_)
SumRows(i) ==
    IF i > Len(data_by_year) THEN 0
    ELSE Len(InputTable(i).rows) + SumRows(i + 1)

\* C1: for emphasis_years >= 1 and base_weight # emphasis_weight, every
\* output row has weight emphasis_weight if its source year is among the
\* last min(emphasis_years, |years|) keys in ascending order, and
\* base_weight otherwise; no other weight value appears.
C1_WeightIffInTrailingWindow ==
    (AggReturned /\ call.emphasis_years >= 1
        /\ call.base_weight # call.emphasis_weight)
    => LET origins == RowOrigins
           window == TrailingYears(call.emphasis_years)
       IN  /\ Len(OutRows) = Len(origins)
           /\ \A k \in 1..Len(OutRows) :
                /\ OutRows[k].weight
                      \in {call.base_weight, call.emphasis_weight}
                /\ (OutRows[k].weight = call.emphasis_weight
                      <=> YearOf(origins[k]) \in window)
                /\ (OutRows[k].weight = call.base_weight
                      <=> YearOf(origins[k]) \notin window)

\* rows of three years with a window of two: both weights occur
C1_Witness ==
    /\ AggReturned
    /\ call.emphasis_years = 2
    /\ call.base_weight # call.emphasis_weight
    /\ Cardinality(Keys(data_by_year)) = 3
    /\ \E k \in 1..Len(OutRows) : OutRows[k].weight = call.emphasis_weight
    /\ \E k \in 1..Len(OutRows) : OutRows[k].weight = call.base_weight

C3_TwoDataAvailabilityErrors ==
    outcome.status # "idle" =>
      /\ data_by_year = <<>> =>
            /\ AggRaised /\ outcome.error = "ValueError"
            /\ outcome.message = "No data provided"
            /\ outcome.table = NoTable
      /\ (data_by_year # <<>> /\ Contributing = {}) =>
            /\ AggRaised /\ outcome.error = "ValueError"
            /\ outcome.message = "No valid data frames to combine"
            /\ outcome.table = NoTable
      /\ AggRaised => (data_by_year = <<>> \/ Contributing = {})

\* a mapping of two empty tables was rejected
C3_Witness ==
    /\ AggRaised
    /\ Len(data_by_year) = 2
    /\ outcome.message # "No data provided"

\* C4: with fewer years than emphasis_years every output row has
\* emphasis_weight, and none has a base_weight that differs from it.
C4_FewerYearsAllEmphasized ==
    (AggReturned /\ Cardinality(Keys(data_by_year)) < call.emphasis_years)
    => \A k \in 1..Len(OutRows) : OutRows[k].weight = call.emphasis_weight

\* two years with rows, a window of three, distinct weights
C4_Witness ==
    /\ AggReturned
    /\ Len(data_by_year) = 2
    /\ Cardinality(Contributing) = 2
    /\ call.emphasis_years = 3
    /\ call.base_weight # call.emphasis_weight

\* C5: with emphasis_years = 0 the window is empty and every output row
\* has base_weight.
C5_ZeroEmphasisAllBase ==
    (AggReturned /\ call.emphasis_years = 0)
    => \A k \in 1..Len(OutRows) : OutRows[k].weight = call.base_weight

\* C6: the output rows are the input rows table by table in the insertion
\* order of the years, each table's rows in their original order; the
\* ascending order of the years plays no part in it.
C6_RowsInInsertionOrder ==
    AggReturned
    => LET origins == RowOrigins
       IN  /\ Len(OutRows) = Len(origins)
           /\ \A k \in 1..Len(OutRows) :
                LET t == InputTable(origins[k].entry)
                IN  /\ OutRows[k].year = YearOf(origins[k])
                    /\ \A c \in t.cols \ {"year", "weight"} :
                          OutRows[k][c] = t.rows[origins[k].row][c]

\* a later year was inserted before an earlier one, both with two rows
C6_Witness ==
    /\ AggReturned
    /\ \E i, j \in Contributing :
         /\ i < j
         /\ data_by_year[i].year > data_by_year[j].year
         /\ Len(InputTable(i).rows) = 2
         /\ InputTable(i).rows[1] # InputTable(i).rows[2]
         /\ Len(InputTable(j).rows) = 2
         /\ InputTable(j).rows[1] # InputTable(j).rows[2]

\* C7: every output row's year is the key of the table the row came from,
\* also for a table that had year and weight columns of its own: their
\* cells are overwritten.
C7_YearIsMappingKey ==
    AggReturned
    => LET origins == RowOrigins
       IN  /\ Len(OutRows) = Len(origins)
           /\ \A k \in 1..Len(OutRows) :
                /\ OutRows[k].year = YearOf(origins[k])
                /\ OutRows[k].year \in Keys(data_by_year)
                /\ OutRows[k].weight
                      \in {call.base_weight, call.emphasis_weight}

\* a table that came with year and weight columns was combined
C7_Witness ==
    /\ AggReturned
    /\ \E i \in Contributing : {"year", "weight"} \subseteq InputTable(i).cols

\* C8: a call, returning or raising, leaves the mapping's keys and every
\* input table's rows and columns as they were.
C8_InputsUnchanged ==
    [][outcome'.status # "idle" =>
         (data_by_year' = data_by_year /\ heap' = heap)]_vars

\* a call returned that had stamped copies of two tables
C8_Witness ==
    /\ AggReturned
    /\ Cardinality(Contributing) >= 2
    /\ \A i \in 1..Len(data_by_year) : "weight" \notin InputTable(i).cols

----------------------------------------------------------------------------
(* Properties of load_multi_year_data, stated on the state after a call:   *)
(* fs is the data directory, request the arguments, loaded the result.     *)

\* the file a recognized tag is stored in
FileOfTag(tag) ==
    CASE tag = "team_stats" -> "team_stats.csv"
      [] tag = "rankings" -> "rankings.csv"
      [] tag = "games" -> "games.csv"
      [] tag = "tournament" -> "tournament.csv"

RecognizedTags == {"team_stats", "rankings", "games", "tournament"}

Requested == ToSet(request.years)

StateOfYear(y) == fs[<<y, FileOfTag(request.data_type)>>]

\* C9: with a recognized tag the returned mapping's keys are exactly the
\* requested years whose retrieval succeeded; a year that is not found is
\* left out, and the years after it are still attempted.
C9_KeysAreResolvedYears ==
    (loaded.status # "idle" /\ request.data_type \in RecognizedTags) =>
      /\ (\A y \in Requested : StateOfYear(y) # "unreadable")
            => loaded.status = "returned"
      /\ loaded.status = "returned" =>
            /\ Keys(loaded.result) = {y \in Requested : StateOfYear(y) = "csv"}
            /\ loaded.attempts = request.years
            /\ \A i \in 1..Len(loaded.result) :
                 loaded.result[i].table
                    = CsvTable(loaded.result[i].year,
                               FileOfTag(request.data_type))

\* the first requested year is missing, the second one is there
C9_Witness ==
    /\ loaded.status = "returned"
    /\ Len(request.years) = 2
    /\ StateOfYear(request.years[1]) = "absent"
    /\ StateOfYear(request.years[2]) = "csv"
    /\ Keys(loaded.result) = {request.years[2]}

\* C10: with a tag outside the four recognized ones the call fails with a
\* ValueError before any year is retrieved and before any warning, for
\* every list of years, the empty one included.
C10_UnknownTagFailsFirst ==
    (loaded.status # "idle" /\ request.data_type \notin RecognizedTags) =>
      /\ loaded.status = "raised"
      /\ loaded.error = "ValueError"
      /\ loaded.attempts = <<>>
      /\ loaded.warnings = <<>>
      /\ loaded.result = <<>>

\* an unknown tag was rejected although every requested file is readable
C10_Witness ==
    /\ loaded.status = "raised"
    /\ request.data_type = "opponent_stats"
    /\ Len(request.years) = 2
    /\ \A f \in DOMAIN fs : fs[f] = "csv"

LoaderCalled == loaded.status # "idle"

\* the positions of the sequence of years ys whose file is not there
MissingAt(ys) == {i \in 1..Len(ys) : StateOfYear(ys[i]) = "absent"}

\* C11: once the tag is validated the call never raises: whatever the
\* retrieval of each year does (a table, not found, any other failure of an
\* existing file), a mapping is returned.
C11_NeverRaisesAfterValidation ==
    (LoaderCalled /\ request.data_type \in RecognizedTags)
    => loaded.status = "returned"

\* C12: one warning is printed for every requested occurrence of a year
\* that was not found and none for a year that resolved: the warnings are,
\* in order, those of the attempted occurrences that were not found, and a
\* call that returns has attempted every occurrence.
C12_OneWarningPerSkippedYear ==
    (LoaderCalled /\ request.data_type \in RecognizedTags) =>
      /\ Cardinality(MissingAt(loaded.attempts)) = Len(loaded.warnings)
      /\ \A k \in 1..Len(loaded.warnings) :
            /\ Len(loaded.warnings[k]) = 3
            /\ loaded.warnings[k][1] = "Warning:"
            /\ StateOfYear(loaded.warnings[k][3]) = "absent"
      /\ loaded.status = "returned" =>
            Cardinality(MissingAt(request.years)) = Len(loaded.warnings)

\* the same missing year was requested twice: two warnings
C12_Witness ==
    /\ loaded.status = "returned"
    /\ Len(request.years) = 2
    /\ request.years[1] = request.years[2]
    /\ Len(loaded.warnings) = 2

\* C13: any subset of the requested years may be missing, down to all of
\* them: when every requested file is a readable CSV or absent the call
\* returns, and when none resolves (or no year is requested) it returns the
\* empty mapping.
C13_ToleratesAllYearsMissing ==
    (LoaderCalled /\ request.data_type \in RecognizedTags) =>
      /\ (\A y \in Requested : StateOfYear(y) \in {"absent", "csv"})
            => loaded.status = "returned"
      /\ (\A y \in Requested : StateOfYear(y) = "absent")
            => (loaded.status = "returned" /\ loaded.result = <<>>)

\* two different years were requested and neither is there
C13_Witness ==
    /\ loaded.status = "returned"
    /\ Len(request.years) = 2
    /\ request.years[1] # request.years[2]
    /\ MissingAt(request.years) = {1, 2}
    /\ loaded.result = <<>>

----------------------------------------------------------------------------
(* Properties of prepare_training_data, stated on the state after a call:  *)
(* the three mappings, target_years and heap hold the arguments, prepared  *)
(* the result.                                                             *)

PrepCalled == prepared.status # "idle"

GameTable(i) == heap[games_by_year[i].df]

\* the positions of the games mapping whose year is a target year
TargetGames ==
    {i \in 1..Len(games_by_year) : games_by_year[i].year \in target_years}

\* those whose table has rows
ContributingGames == {i \in TargetGames : ~DfEmpty(GameTable(i))}

RECURSIVE GameOriginsFrom(_)
\* for every row of the contributing games tables, in insertion order of
\* the years and in the order of the rows: the entry and the row it is
GameOriginsFrom(i) ==
    IF i > Len(games_by_year) THEN <<>>
    ELSE (IF i \in ContributingGames
          THEN [r \in 1..Len(GameTable(i).rows) |-> [entry |-> i, row |-> r]]
          ELSE <<>>) \o GameOriginsFrom(i + 1)

\* the columns of the weighted games table
WeightedGamesCols ==
    UNION {GameTable(i).cols : i \in ContributingGames} \cup {"year", "weight"}

\* the team-features step succeeds: some team-stats table of a target year
\* has rows, and the rankings of the target years are none or have rows
TeamFeaturesBuilt ==
    /\ \E i \in 1..Len(team_stats_by_year) :
          /\ team_stats_by_year[i].year \in target_years
          /\ ~DfEmpty(heap[team_stats_by_year[i].df])
    /\ ~rankings_by_year.none
    /\ LET rk == rankings_by_year.dict
           tg == {i \in 1..Len(rk) : rk[i].year \in target_years}
       IN  tg = {} \/ \E i \in tg : ~DfEmpty(heap[rk[i].df])

\* C14: when the team features are built and the weighted games table of
\* the target years has an outcome column, prepare_training_data returns;
\* and whenever it returns, X has the columns of the weighted games table
\* except outcome (year and weight among them), y is the outcome column, X
\* and y hold the same rows in the same order, namely the rows of the games
\* tables of the target years in insertion order, each with its year.
C14_SplitsFeaturesFromOutcome ==
    PrepCalled =>
      /\ (TeamFeaturesBuilt /\ "outcome" \in WeightedGamesCols)
            => prepared.status = "returned"
      /\ prepared.status = "returned" =>
            LET origins == GameOriginsFrom(1)
                X == prepared.X
                y == prepared.y
            IN  /\ "outcome" \in WeightedGamesCols
                /\ X.cols = WeightedGamesCols \ {"outcome"}
                /\ {"year", "weight"} \subseteq X.cols
                /\ Len(X.rows) = Len(origins)
                /\ Len(y) = Len(origins)
                /\ \A k \in 1..Len(origins) :
                      LET src == GameTable(origins[k].entry)
                          row == src.rows[origins[k].row]
                          year == games_by_year[origins[k].entry].year
                      IN  /\ year \in target_years
                          /\ X.rows[k].year = year
                          /\ X.rows[k].weight \in {1, 2}
                          /\ \A c \in X.cols \ {"year", "weight"} :
                                X.rows[k][c] =
                                   IF c \in src.cols THEN row[c] ELSE NaN
                          /\ y[k] = IF "outcome" \in src.cols
                                    THEN row.outcome ELSE NaN

\* a call that returned MaxRows rows although the games mapping also holds
\* a table with rows of a year that is no target year
C14_Witness ==
    /\ prepared.status = "returned"
    /\ Len(prepared.y) = MaxRows
    /\ \E i \in 1..Len(games_by_year) :
          /\ games_by_year[i].year \notin target_years
          /\ ~DfEmpty(GameTable(i))

\* C15: when no games table of the target years has an outcome column,
\* prepare_training_data raises and returns no (X, y); and whenever it
\* returns, X has no outcome column and y has one value per row of X.
C15_NoOutcomeNoSplit ==
    PrepCalled =>
      /\ (\A i \in TargetGames : "outcome" \notin GameTable(i).cols) =>
            /\ prepared.status = "raised"
            /\ prepared.X = NoTable
            /\ prepared.y = NoSeries
      /\ prepared.status = "returned" =>
            /\ "outcome" \notin prepared.X.cols
            /\ Len(prepared.y) = Len(prepared.X.rows)
            /\ \E i \in ContributingGames : "outcome" \in GameTable(i).cols

\* the games of the target years have rows and no outcome column, the team
\* features were built, and the split raised KeyError
C15_Witness ==
    /\ prepared.status = "raised"
    /\ prepared.error = "KeyError"
    /\ TeamFeaturesBuilt
    /\ ContributingGames # {}
    /\ \A i \in TargetGames : "outcome" \notin GameTable(i).cols

----------------------------------------------------------------------------
(* Properties of the model factory, stated on the steps of its state       *)
(* machine: last names the operation of the step, ops counts the steps.    *)

\* the step is a call of one of the operations in names
ModelStep(names) == ops' = ops + 1 /\ last'.op \in names

\* C16: predict, evaluate and save on a model that is not trained raise
\* RuntimeError, make no call on a classifier, write no file and leave the
\* model with is_trained = False and model = None.
C16_UntrainedCallsFailAndLeaveNoModel ==
    [][(/\ ModelStep({"predict", "evaluate", "save"})
        /\ ~instances[last'.ref].is_trained)
       => /\ last'.status = "raised"
          /\ last'.error = "RuntimeError"
          /\ classifier_calls' = classifier_calls
          /\ disk' = disk
          /\ instances'[last'.ref].is_trained = FALSE
          /\ instances'[last'.ref].model = NoEstimator]_vars

\* the variant a tag names
VariantOfTag(tag) ==
    CASE tag = "baseline" -> "BaselineModel"
      [] tag = "random_forest" -> "RandomForestModel"
      [] tag = "gradient_boosting" -> "GradientBoostingModel"
      [] tag = "svm" -> "SVMModel"
      [] OTHER -> "None"

\* C17: create_model with one of the four tags returns a new object of the
\* matching variant, untrained, with model = None and the given parameters
\* (none for None), and leaves the other objects alone; with any other tag
\* it raises ValueError and no object is made.
C17_CreateModelByTag ==
    [][ModelStep({"create_model"}) =>
         IF VariantOfTag(last'.tag) # "None"
         THEN /\ last'.status = "returned"
              /\ last'.ref = Len(instances) + 1
              /\ Len(instances') = Len(instances) + 1
              /\ SubSeq(instances', 1, Len(instances)) = instances
              /\ instances'[last'.ref].variant = VariantOfTag(last'.tag)
              /\ instances'[last'.ref].is_trained = FALSE
              /\ instances'[last'.ref].model = NoEstimator
              /\ instances'[last'.ref].model_params =
                    (IF last'.params.none THEN <<>> ELSE last'.params.dict)
              /\ estimators_made' = estimators_made
         ELSE /\ last'.status = "raised"
              /\ last'.error = "ValueError"
              /\ last'.ref = 0
              /\ instances' = instances
              /\ estimators_made' = estimators_made]_vars

\* a second model was created, with parameters
C17_Witness ==
    /\ last.op = "create_model"
    /\ last.status = "returned"
    /\ last.ref = 2
    /\ instances[2].model_params # <<>>
    /\ instances[2].variant # instances[1].variant

\* the variant of the model a file was saved from
SavedVariant(filepath) == disk.files[filepath][1]

\* C18: load called on one of the four variants, of a file saved from a
\* model, returns a model iff the file was saved from that variant, and
\* otherwise raises TypeError and returns nothing.
C18_LoadChecksVariant ==
    (/\ last.op = "load"
     /\ last.cls \in Variants
     /\ disk.files[last.path] # NoFile)
    => /\ last.status = "returned" <=> last.cls = SavedVariant(last.path)
       /\ last.status = "returned" =>
             /\ last.ref = Len(instances)
             /\ instances[last.ref].variant = last.cls
       /\ last.status # "returned" =>
             /\ last.status = "raised"
             /\ last.error = "TypeError"
             /\ last.ref = 0

\* a file saved from one variant was loaded as another
C18_Witness ==
    /\ last.op = "load"
    /\ last.cls \in Variants
    /\ disk.files[last.path] # NoFile
    /\ last.cls # SavedVariant(last.path)
    /\ last.error = "TypeError"

\* C19: a save that wrote its file leaves every model as it was, and load
\* of that file with the model's variant returns a model of that variant
\* with the same model_params and is_trained = True, on which predict does
\* not raise the state error; every model a load returns is such a model.
C19_SaveLoadRoundTrip ==
    [][/\ (ModelStep({"save"}) /\ last'.status = "returned") =>
             LET m == instances[last'.ref]
                 r == Load(m.variant, last'.path, disk', estimators_made')
             IN  /\ instances' = instances
                 /\ m.is_trained
                 /\ r.status = "returned"
                 /\ r.obj.variant = m.variant
                 /\ r.obj.model_params = m.model_params
                 /\ r.obj.is_trained
                 /\ Predict(r.obj).error # "RuntimeError"
       /\ (ModelStep({"load"}) /\ last'.status = "returned") =>
             /\ instances'[last'.ref].is_trained
             /\ Predict(instances'[last'.ref]).error # "RuntimeError"
             /\ SubSeq(instances', 1, Len(instances)) = instances]_vars

\* a model with parameters was trained, saved, and loaded as its variant
C19_Witness ==
    /\ last.op = "load"
    /\ last.status = "returned"
    /\ last.cls \in Variants
    /\ last.ref = 2
    /\ instances[2].model_params # <<>>
    /\ instances[2].model_params = instances[1].model_params
    /\ instances[2].variant = instances[1].variant

----------------------------------------------------------------------------
(* Properties of create_team_features, stated on the state after a call.   *)

FeatCalled == featured.status # "idle"

\* C20: whenever create_team_features returns, its result is the table
\* weight_by_recency(team_stats_by_year, emphasis_years) returns with the
\* weights 1.0 and 2.0, whatever the rankings are.
C20_TeamFeaturesAreWeightedStats ==
    FeatCalled =>
       LET w == WeightByRecency(team_stats_by_year, heap,
                                featured.emphasis_years, 1, 2)
       IN  /\ featured.status = "returned" =>
                /\ w.status = "returned"
                /\ featured.table = w.table
           /\ ~Truthy(rankings_by_year) =>
                /\ featured.status = w.status
                /\ featured.message = w.message

\* a call that returned although the rankings hold a table with rows
C20_Witness ==
    /\ featured.status = "returned"
    /\ Len(featured.table.rows) > MaxRows
    /\ Truthy(rankings_by_year)
    /\ \E i \in 1..Len(rankings_by_year.dict) :
          ~DfEmpty(heap[rankings_by_year.dict[i].df])

----------------------------------------------------------------------------
(* Invariants of the model lifecycle.                                      *)

\* C23: a model with is_trained = True wraps an estimator whose fit
\* completed.
C23_TrainedMeansFitted ==
    \A i \in 1..Len(instances) :
        instances[i].is_trained =>
            /\ instances[i].model # NoEstimator
            /\ instances[i].model.fitted

\* C30: is_trained, once True, stays True through every operation, and
\* predict, evaluate and save leave every attribute of every model as it
\* was: is_trained, model_params and the wrapped estimator object.
C30_TrainedStaysTrained ==
    [][/\ \A i \in 1..Len(instances) :
             instances[i].is_trained =>
                /\ Len(instances') >= i
                /\ instances'[i].is_trained
                /\ instances'[i].model_params = instances[i].model_params
                /\ instances'[i].variant = instances[i].variant
       /\ ModelStep({"predict", "evaluate", "save"}) =>
             /\ instances' = instances
             /\ estimators_made' = estimators_made]_vars

\* a trained model whose later train raised in fit: it is still trained,
\* around the new estimator
C30_Witness ==
    /\ last.op = "train"
    /\ last.status = "raised"
    /\ last.error = "ValueError"
    /\ instances[last.ref].is_trained
    /\ instances[last.ref].model.id = 2

----------------------------------------------------------------------------
(* Failures of the pipeline that come from data its result does not use.   *)

\* some team-stats table has rows
StatsHaveRows ==
    \E i \in 1..Len(team_stats_by_year) :
        ~DfEmpty(heap[team_stats_by_year[i].df])

\* the rankings are a non-empty mapping of empty tables
RankingsAllEmpty ==
    /\ ~rankings_by_year.none
    /\ rankings_by_year.dict # <<>>
    /\ \A i \in 1..Len(rankings_by_year.dict) :
          DfEmpty(heap[rankings_by_year.dict[i].df])

\* C24: with valid team stats, create_team_features raises ValueError 'No
\* valid data frames to combine' when the rankings are a non-empty mapping
\* of empty tables, and returns when the rankings are None or empty.
C24_EmptyRankingsFailTeamFeatures ==
    (FeatCalled /\ StatsHaveRows) =>
       /\ RankingsAllEmpty =>
             /\ featured.status = "raised"
             /\ featured.error = "ValueError"
             /\ featured.message = "No valid data frames to combine"
             /\ featured.table = NoTable
       /\ (rankings_by_year.none \/ rankings_by_year.dict = <<>>) =>
             featured.status = "returned"

\* team stats with rows, two rankings tables, both empty, and the call
\* raised
C24_Witness ==
    /\ FeatCalled
    /\ StatsHaveRows
    /\ RankingsAllEmpty
    /\ Len(rankings_by_year.dict) = 2
    /\ featured.message = "No valid data frames to combine"

\* the positions of the team-stats mapping whose year is a target year
TargetStats ==
    {i \in 1..Len(team_stats_by_year) :
        team_stats_by_year[i].year \in target_years}

\* C25: prepare_training_data, given a rankings mapping, raises the
\* ValueError of the team-stats step when no team-stats year is a target
\* year ('No data provided') or all team-stats tables of the target years
\* are empty ('No valid data frames to combine'), whatever the games are;
\* and it raises ValueError when no games year is a target year.
C25_NoTargetStatsFailFirst ==
    (PrepCalled /\ ~rankings_by_year.none) =>
       /\ TargetStats = {} =>
             /\ prepared.status = "raised"
             /\ prepared.error = "ValueError"
             /\ prepared.message = "No data provided"
       /\ (/\ TargetStats # {}
           /\ \A i \in TargetStats : DfEmpty(heap[team_stats_by_year[i].df]))
          => /\ prepared.status = "raised"
             /\ prepared.error = "ValueError"
             /\ prepared.message = "No valid data frames to combine"
       /\ TargetGames = {} =>
             /\ prepared.status = "raised"
             /\ prepared.error = "ValueError"
       /\ prepared.status = "raised" =>
             /\ prepared.X = NoTable
             /\ prepared.y = NoSeries

\* the team stats of the target years are empty tables, the games of the
\* target years have rows and an outcome column, and the call raised
C25_Witness ==
    /\ prepared.status = "raised"
    /\ ~rankings_by_year.none
    /\ TargetStats # {}
    /\ \A i \in TargetStats : DfEmpty(heap[team_stats_by_year[i].df])
    /\ \E i \in ContributingGames : "outcome" \in GameTable(i).cols

\* the years of the mapping whose table has rows
ContributingYears == {data_by_year[i].year : i \in Contributing}

\* C26: for emphasis_years >= 1 and base_weight # emphasis_weight, the years
\* whose rows carry emphasis_weight are the years with rows among the
\* trailing emphasis_years keys of the whole mapping: a year with an empty
\* table takes a place in the window, and when every year of the window has
\* an empty table all rows carry base_weight.
C26_EmptyYearsTakeWindowSlots ==
    (/\ AggReturned
     /\ call.emphasis_years >= 1
     /\ call.base_weight # call.emphasis_weight)
    => LET window == TrailingYears(call.emphasis_years)
       IN  /\ {OutRows[k].year : k \in {j \in 1..Len(OutRows) :
                    OutRows[j].weight = call.emphasis_weight}}
                 = window \cap ContributingYears
           /\ window \cap ContributingYears = {} =>
                 \A k \in 1..Len(OutRows) :
                    OutRows[k].weight = call.base_weight

\* three years, emphasis_years = 2, only the earliest year has rows: its
\* rows carry base_weight
C26_Witness ==
    /\ AggReturned
    /\ call.emphasis_years = 2
    /\ call.base_weight # call.emphasis_weight
    /\ Len(data_by_year) = 3
    /\ Cardinality(ContributingYears) = 1
    /\ \A y \in Keys(data_by_year) \ ContributingYears :
          \A z \in ContributingYears : z < y
    /\ \A k \in 1..Len(OutRows) : OutRows[k].weight = call.base_weight

----------------------------------------------------------------------------
(* Properties of create_matchup_features, stated on the state after a      *)
(* call: games_by_year and heap hold the games, matched the team_features  *)
(* argument, emphasis_years and the result.                                *)

MatchCalled == matched.status # "idle"

\* what weight_by_recency(games_by_year, emphasis_years) produces
WeightedGames(emphasis_years) ==
    WeightByRecency(games_by_year, heap, emphasis_years,
                    DefaultBaseWeight, DefaultEmphasisWeight)

\* C21: create_matchup_features produces exactly what
\* weight_by_recency(games_by_year, emphasis_years) with the default weights
\* produces (the same table or the same error), whatever team_features table
\* is passed: the result is a function of the games and emphasis_years alone
C21_MatchupIsWeightedGames ==
    MatchCalled =>
        LET r == WeightedGames(matched.emphasis_years)
        IN  /\ matched.status = r.status
            /\ matched.error = r.error
            /\ matched.message = r.message
            /\ matched.table = r.table

\* a call with a team_features table of MaxRows rows returned weighted games
C21_Witness ==
    /\ matched.status = "returned"
    /\ Len(matched.team_features.rows) = MaxRows
    /\ Len(matched.table.rows) > 0
    /\ matched.emphasis_years = 1

----------------------------------------------------------------------------
(* Properties of successive weight_by_recency calls, stated on the         *)
(* session's history.                                                      *)

\* two recorded calls had equal arguments: the same mapping in the same
\* insertion order over equal frames, the same emphasis_years and weights
SameArguments(a, b) ==
    /\ a.data_by_year = b.data_by_year
    /\ a.frames = b.frames
    /\ a.emphasis_years = b.emphasis_years
    /\ a.base_weight = b.base_weight
    /\ a.emphasis_weight = b.emphasis_weight

\* two recorded calls had equal outcomes: equal tables or the same error
SameOutcome(a, b) ==
    /\ a.status = b.status
    /\ a.error = b.error
    /\ a.message = b.message
    /\ a.table = b.table

----------------------------------------------------------------------------
(* Properties of the scrapers, stated on the state after a call: web holds *)
(* the site, scrape the arguments, the result and what the run did, in     *)
(* order, outdir and fs the files it left.                                 *)

ScrapedYears == scrape.op = "scrape_multiple_years"

ScrapedAll == scrape.op = "scrape_all_data"

\* the number of years of range(start_year, end_year + 1)
RangeLen ==
    IF scrape.end_year < scrape.start_year THEN 0
    ELSE scrape.end_year + 1 - scrape.start_year

\* the scrape events of the run, in order
Attempts == SelectSeq(scrape.trace, LAMBDA e : e.ev = "scrape")

\* the page of a scraper and year holds rows
PageHasData(kind, year) == web.pages[kind][year] \in {"data", "ap", "both"}

\* the years of the call's range whose page holds rows
YearsWithData(kind) ==
    {y \in scrape.start_year..scrape.end_year : PageHasData(kind, y)}

\* the event at position i starts a year's block: the scrape, the save of
\* the CSV if the page held rows, and the wait of ScraperWait seconds; only
\* a scrape that raised ends the trace
BlockAt(i) ==
    LET t == scrape.trace
        e == t[i]
        wait == Event("wait", e.kind, e.year, ScraperWait)
        save == Event("save", e.kind, e.year, 0)
    IN  IF i = Len(t) THEN scrape.status = "raised"
        ELSE IF PageHasData(e.kind, e.year)
        THEN i + 2 <= Len(t) /\ t[i + 1] = save /\ t[i + 2] = wait
        ELSE t[i + 1] = wait

Positions(ev) == {i \in 1..Len(scrape.trace) : scrape.trace[i].ev = ev}

\* the scrapers in the order scrape_all_data runs them
ScraperOrder == <<"team_stats", "opponent_stats", "rankings">>

\* the enabled scrapers, in that order
EnabledInOrder == SelectSeq(ScraperOrder, LAMBDA k : k \in scrape.flags)

\* the scrapers run, in the order of their runs
RunsInOrder ==
    LET runs == SelectSeq(scrape.trace, LAMBDA e : e.ev = "run")
    IN  [i \in 1..Len(runs) |-> runs[i].kind]

TeamStatsResultYears ==
    UNION {{scrape.results[i].value[j].year :
               j \in 1..Len(scrape.results[i].value)} :
              i \in {k \in 1..Len(scrape.results) :
                        scrape.results[k].key = "team_stats"}}

\* the years whose directory holds the file
YearsHolding(name) == {y \in LoadYears : fs[<<y, name>>] # "absent"}

\* C29: after scrape_all_data has run on an empty output directory, no
\* <year>/games.csv and no <year>/tournament.csv exists; once it has
\* returned, load_multi_year_data(years, 'games') and
\* load_multi_year_data(years, 'tournament') on that directory return the
\* empty mapping with one warning per requested year, and
\* <year>/team_stats.csv exists exactly for the years of the team-stats
\* result
C29_ScrapedDirectoryHasNoGames ==
    ScrapedAll =>
        /\ YearsHolding("games.csv") = {}
        /\ YearsHolding("tournament.csv") = {}
        /\ scrape.status = "returned" =>
              /\ \A years \in RequestChoices :
                   \A data_type \in {"games", "tournament"} :
                      LET r == LoadMultiYearData(years, data_type, fs)
                      IN  /\ r.status = "returned"
                          /\ r.result = <<>>
                          /\ Len(r.warnings) = Len(years)
                          /\ r.attempts = years
              /\ YearsHolding("team_stats.csv") = TeamStatsResultYears

\* a call over two years with every scraper enabled returned; team stats
\* were found for the second year only, rankings for both
C29_Witness ==
    /\ ScrapedAll
    /\ scrape.status = "returned"
    /\ scrape.flags = ScraperKinds
    /\ scrape.start_year < scrape.end_year
    /\ TeamStatsResultYears = {scrape.end_year}
    /\ YearsHolding("team_stats.csv") = {scrape.end_year}
    /\ YearsHolding("rankings.csv") = {scrape.start_year, scrape.end_year}
    /\ <<scrape.end_year, "opponent_stats.csv">> \in outdir.files

====
